---------------------------- MODULE Spec2Model ----------------------------
(***************************************************************************)
(* A model of the Gerrit access core of grt (crates/grt/src): the REST     *)
(* client's request lifecycle (gerrit.rs), git's URL rewrite rules         *)
(* (config.rs), remote resolution and the query dispatcher                 *)
(* (review_query.rs), the review commands and the revision resolver        *)
(* (review.rs), and the comment thread builder (comments.rs).              *)
(*                                                                         *)
(* Strings are sequences of one-character strings, so that prefix tests,   *)
(* splitting and concatenation are computed as the code computes them.     *)
(***************************************************************************)
EXTENDS Integers, Sequences, FiniteSets, TLC

VARIABLES
    \* ---- GerritClient (gerrit.rs:73-77) and one call of GerritClient::get
    base_path,      \* path of GerritClient.base_url
    credentials,    \* GerritClient.credentials : Option<Credentials>
    pc,             \* position of the call: "idle", "attempt", "sleep", "done"
    path,           \* the `path` argument of get
    url,            \* the `url` local of get, built once by api_url
    attempt,        \* the loop variable of get
    last_err,       \* the `last_err` local of get
    raws,           \* what transport and server did on each attempt so far
    attempts,       \* what get_once returned on each attempt so far
    sleeps,         \* the delays (seconds) slept so far
    requests,       \* the requests get_once has sent so far: URL and headers
    result,         \* what get returned: Option<Result<String>>
    \* ---- strip_xssi_prefix applied to one body
    xssi_body,      \* the body handed to strip_xssi_prefix
    xssi_out,       \* Option<String>: what it returned
    \* ---- the git configuration of the work directory
    config_list,    \* Result of `git config --list`: the lines, or an error
    remote_pushurl, \* remote.<name>.pushurl : Option<String>
    remote_url,     \* remote.<name>.url : Option<String>
    \* ---- config.rs: UrlRewrites and one call of alias_url
    rewrites,       \* Option<UrlRewrites>: what populate_rewrites built
    alias_call,     \* the last call of alias_url: its arguments and result
    \* ---- review_query.rs: one call of resolve_remote_url
    resolve_call,   \* the last call: its arguments, the reads, the result
    \* ---- review_query.rs: one call of the query dispatcher
    dispatch_call,  \* the call in progress: operation, URL, backends invoked
    \* ---- review.rs: one call of find_target_revision
    revision_call,  \* the last call: change, patchset, map order, result
    \* ---- review.rs: one run of a review command
    command_call,   \* the run: command, calls made to Gerrit, result
    \* ---- comments.rs: one call of build_threads
    comments_by_file, \* the argument: file -> Vec<CommentInfo>
    threads_call,   \* the last call: Option of the threads returned
    \* ---- review_query.rs, mod ssh: one call of the SSH backend
    ssh_call,       \* the call: operation, subprocess runs, output, result
    \* ---- comments.rs: the recursion of collect_thread, frame by frame
    walk_comments,  \* all_comments of the call of build_threads
    walk_pc,        \* "idle", "roots" (the loop over roots), "done"
    walk_root,      \* how many roots the loop has taken
    walk_stack,     \* the frames of collect_thread: comment, replies taken
    walk_result,    \* `thread_comments`, the Vec collect_thread appends to
    walk_threads    \* `threads`

restVars == <<base_path, credentials, pc, path, url, attempt, last_err, raws,
              attempts, sleeps, requests, result>>
xssiVars == <<xssi_body, xssi_out>>
gitVars == <<config_list, remote_pushurl, remote_url>>
aliasVars == <<rewrites, alias_call>>
resolveVars == <<resolve_call>>
dispatchVars == <<dispatch_call>>
revisionVars == <<revision_call>>
commandVars == <<command_call>>
threadVars == <<comments_by_file, threads_call>>
reviewVars == <<revisionVars, commandVars, threadVars>>
sshVars == <<ssh_call>>
walkVars == <<walk_comments, walk_pc, walk_root, walk_stack, walk_result, walk_threads>>
backendVars == <<sshVars, walkVars>>
vars == <<restVars, xssiVars, gitVars, aliasVars, resolveVars, dispatchVars,
          reviewVars, backendVars>>

nonRestVars == <<xssiVars, gitVars, aliasVars, resolveVars, dispatchVars, reviewVars,
    backendVars>>
nonXssiVars == <<restVars, gitVars, aliasVars, resolveVars, dispatchVars, reviewVars,
    backendVars>>
nonAliasVars == <<restVars, xssiVars, resolveVars, dispatchVars, reviewVars,
    backendVars>>
nonResolveVars == <<restVars, xssiVars, aliasVars, dispatchVars, reviewVars,
    backendVars>>
nonDispatchVars == <<restVars, xssiVars, gitVars, aliasVars, resolveVars, reviewVars,
    backendVars>>
nonRevisionVars == <<restVars, xssiVars, gitVars, aliasVars, resolveVars,
                     dispatchVars, commandVars, threadVars, backendVars>>
nonCommandVars == <<restVars, xssiVars, gitVars, aliasVars, resolveVars,
                    dispatchVars, revisionVars, threadVars, backendVars>>
nonThreadVars == <<restVars, xssiVars, gitVars, aliasVars, resolveVars,
                   dispatchVars, revisionVars, commandVars, backendVars>>
nonSshVars == <<restVars, xssiVars, gitVars, aliasVars, resolveVars, dispatchVars,
                reviewVars, walkVars>>
nonWalkVars == <<restVars, xssiVars, gitVars, aliasVars, resolveVars, dispatchVars,
                 reviewVars, sshVars>>

---------------------------------------------------------------------------
(* Option and Result values *)

None == [some |-> FALSE]
Some(v) == [some |-> TRUE, val |-> v]
Ok(v) == [ok |-> TRUE, val |-> v]
Err(e) == [ok |-> FALSE, err |-> e]

---------------------------------------------------------------------------
(* str helpers of the standard library, on character sequences *)

\* str::starts_with
StartsWith(s, p) == Len(p) <= Len(s) /\ SubSeq(s, 1, Len(p)) = p

\* &s[n..] with a 0-based byte offset n
SliceFrom(s, n) == SubSeq(s, n + 1, Len(s))

\* str::find(ch): Some(0-based offset of the first occurrence) or None
Find(s, ch) ==
    IF \E i \in 1..Len(s) : s[i] = ch
    THEN Some((CHOOSE i \in 1..Len(s) : s[i] = ch /\ \A j \in 1..(i - 1) : s[j] # ch) - 1)
    ELSE None

\* str::trim_end_matches(ch)
RECURSIVE TrimEndMatches(_, _)
TrimEndMatches(s, ch) ==
    IF Len(s) > 0 /\ s[Len(s)] = ch
    THEN TrimEndMatches(SubSeq(s, 1, Len(s) - 1), ch)
    ELSE s

\* str::split_once(ch): Some(<<before, after>>) or None
SplitOnce(s, ch) ==
    LET f == Find(s, ch)
    IN  IF f.some
        THEN Some(<<SubSeq(s, 1, f.val), SliceFrom(s, f.val + 1)>>)
        ELSE None

\* every sequence over S of length at most n
SeqUpTo(S, n) == UNION {[1..k -> S] : k \in 0..n}

---------------------------------------------------------------------------
(* gerrit.rs: errors and their classification *)

\* a retry budget that is one retry larger
MAX_RETRIES_PLUS_ONE == 3 + 1

MAX_RETRIES == 3

AuthFailed(status) == [kind |-> "AuthFailed", status |-> status]
NotFound == [kind |-> "NotFound"]
ServerError(status, body) == [kind |-> "ServerError", status |-> status, body |-> body]
Network(desc) == [kind |-> "Network", desc |-> desc]

\* is_retryable that takes every error for transient
is_retryable_any(e) == TRUE

\* GerritError::is_retryable
is_retryable(e) ==
    CASE e.kind = "ServerError" -> e.status >= 500
      [] e.kind = "Network" -> TRUE
      [] OTHER -> FALSE

\* strip_xssi_prefix that knows the marker only with its closing quote
strip_xssi_quoted_only(body) ==
    IF StartsWith(body, <<")", "]", "}", "'", "\n">>) THEN SliceFrom(body, 5) ELSE body

\* strip_xssi_prefix
strip_xssi_prefix(body) ==
    LET newline_pos == Find(body, "\n")
    IN  IF newline_pos.some /\ StartsWith(SubSeq(body, 1, newline_pos.val), <<")", "]", "}">>)
        THEN SliceFrom(body, newline_pos.val + 1)
        ELSE body

\* StatusCode::is_success
is_success(status) == 200 <= status /\ status <= 299

\* get_once that takes 403 for one more server error
get_once_403_unclassified(raw) ==
    IF ~raw.send_ok THEN Err(Network("send"))
    ELSE IF raw.status = 401 THEN Err(AuthFailed(raw.status))
    ELSE IF raw.status = 404 THEN Err(NotFound)
    ELSE IF ~is_success(raw.status)
         THEN Err(ServerError(raw.status, IF raw.text_ok THEN raw.body ELSE <<>>))
    ELSE IF ~raw.text_ok THEN Err(Network("text"))
    ELSE Ok(strip_xssi_prefix(raw.body))

\* GerritClient::get_once, given what the transport and the server do:
\* raw.send_ok: the request got a response; raw.status; raw.text_ok: the
\* response body could be read; raw.body
get_once(raw) ==
    IF ~raw.send_ok THEN Err(Network("send"))
    ELSE IF raw.status = 401 \/ raw.status = 403 THEN Err(AuthFailed(raw.status))
    ELSE IF raw.status = 404 THEN Err(NotFound)
    ELSE IF ~is_success(raw.status)
         THEN Err(ServerError(raw.status, IF raw.text_ok THEN raw.body ELSE <<>>))
    ELSE IF ~raw.text_ok THEN Err(Network("text"))
    ELSE Ok(strip_xssi_prefix(raw.body))

---------------------------------------------------------------------------
(* gerrit.rs: building the request URL *)

\* Url::set_path for an http(s) URL: the path always starts with "/";
\* the characters used here need no percent-encoding
set_path(p) == IF Len(p) = 0 \/ p[1] # "/" THEN <<"/">> \o p ELSE p

\* api_url built as Url::join builds it: the base URL's sub-path is lost
api_url_join(base, creds, p) ==
    LET prefix == IF creds.some THEN <<"/", "a">> ELSE <<>>
        full_path == prefix \o p
        split == SplitOnce(full_path, "?")
        path_part == IF split.some THEN split.val[1] ELSE full_path
        query_part == IF split.some THEN Some(split.val[2]) ELSE None
    IN  [path |-> set_path(path_part), query |-> query_part]

\* GerritClient::api_url, as a function of the client's fields
api_url_of(base, creds, p) ==
    LET prefix == IF creds.some THEN <<"/", "a">> ELSE <<>>
        full_path == prefix \o p
        split == SplitOnce(full_path, "?")
        path_part == IF split.some THEN split.val[1] ELSE full_path
        query_part == IF split.some THEN Some(split.val[2]) ELSE None
        new_path == TrimEndMatches(base, "/") \o path_part
    IN  [path |-> set_path(new_path), query |-> query_part]

api_url(p) == api_url_of(base_path, credentials, p)

\* urlencoding::encode on the characters used here: "/" and "?" are
\* reserved, letters and digits are kept
RECURSIVE urlencode(_)
urlencode(s) ==
    IF s = <<>> THEN <<>>
    ELSE (CASE s[1] = "/" -> <<"%", "2", "F">>
            [] s[1] = "?" -> <<"%", "3", "F">>
            [] OTHER -> <<s[1]>>) \o urlencode(Tail(s))


---------------------------------------------------------------------------
(* gerrit.rs: the endpoints the client's public operations request *)

\* the caller-supplied query strings and change ids
CallerArgs == {<<"/", "a", "/">>, <<"a", "?">>}

\* GerritClient::get_version
get_version_path == <<"/", "c", "o", "n", "f", "i", "g", "/", "s", "e", "r", "v", "e", "r", "/", "v", "e", "r", "s", "i", "o", "n">>

\* GerritClient::get_self_account
get_self_account_path == <<"/", "a", "c", "c", "o", "u", "n", "t", "s", "/", "s", "e", "l", "f">>

\* GerritClient::query_changes
query_changes_path(query) ==
    <<"/", "c", "h", "a", "n", "g", "e", "s", "/", "?", "q", "=">> \o urlencode(query)
    \o <<"&", "o", "=", "C", "U", "R", "R", "E", "N", "T", "_", "R", "E", "V", "I", "S", "I", "O", "N">>
    \o <<"&", "o", "=", "D", "E", "T", "A", "I", "L", "E", "D", "_", "A", "C", "C", "O", "U", "N", "T", "S">>

\* GerritClient::get_change_all_revisions
get_change_all_revisions_path(change_id) ==
    <<"/", "c", "h", "a", "n", "g", "e", "s", "/">> \o urlencode(change_id)
    \o <<"/", "d", "e", "t", "a", "i", "l", "?", "o", "=", "A", "L", "L", "_", "R", "E", "V", "I", "S", "I", "O", "N", "S">>
    \o <<"&", "o", "=", "D", "E", "T", "A", "I", "L", "E", "D", "_", "A", "C", "C", "O", "U", "N", "T", "S">>

EndpointPaths ==
    {get_version_path, get_self_account_path}
    \cup {query_changes_path(q) : q \in CallerArgs}
    \cup {get_change_all_revisions_path(c) : c \in CallerArgs}

\* paths of the base URLs a client is built with
BasePaths == {<<"/">>, <<"/", "g", "/">>, <<"/", "a">>}

\* credentials a client may hold
\* a user name; a password, and a password that ends in a line feed
Usernames == {<<"u">>}
Passwords == {<<"p">>, <<"p", "\n">>}

CredentialSet ==
    {[username |-> u, password |-> p, auth_type |-> t] :
        u \in Usernames, p \in Passwords, t \in {"Basic", "Bearer"}}

\* response bodies
PlainBody == <<"1">>
XssiBody == <<")", "]", "}", "'", "\n", "1">>
ErrorBody == <<"e">>

\* what transport and server may do on one attempt
RawOutcomes ==
    {[send_ok |-> FALSE, status |-> 0, text_ok |-> FALSE, body |-> <<>>]}
    \cup {[send_ok |-> TRUE, status |-> 200, text_ok |-> TRUE, body |-> b] : b \in {PlainBody, XssiBody}}
    \cup {[send_ok |-> TRUE, status |-> 200, text_ok |-> FALSE, body |-> <<>>]}
    \cup {[send_ok |-> TRUE, status |-> 204, text_ok |-> TRUE, body |-> <<>>]}
    \cup {[send_ok |-> TRUE, status |-> s, text_ok |-> TRUE, body |-> ErrorBody] :
            s \in {302, 400, 401, 403, 404, 499, 500, 503}}
    \cup {[send_ok |-> TRUE, status |-> 503, text_ok |-> FALSE, body |-> <<>>]}

---------------------------------------------------------------------------
(* gerrit.rs: the Authorization header *)

\* the characters of bytes 32..126, in the order of their bytes ("grave"
\* stands for the grave accent, byte 96)
PrintableAscii ==
    <<" ", "!", "\"", "#", "$", "%", "&", "'", "(", ")", "*", "+",
      ",", "-", ".", "/", "0", "1", "2", "3", "4", "5", "6", "7",
      "8", "9", ":", ";", "<", "=", ">", "?", "@", "A", "B", "C",
      "D", "E", "F", "G", "H", "I", "J", "K", "L", "M", "N", "O",
      "P", "Q", "R", "S", "T", "U", "V", "W", "X", "Y", "Z", "[",
      "\\", "]", "^", "_", "grave", "a", "b", "c", "d", "e", "f", "g",
      "h", "i", "j", "k", "l", "m", "n", "o", "p", "q", "r", "s",
      "t", "u", "v", "w", "x", "y", "z", "{", "|", "}", "~">>

\* the byte of every character: a tab, a line feed, or a printable character
ascii_bytes ==
    [c \in {"\t", "\n"} \cup {PrintableAscii[i] : i \in DOMAIN PrintableAscii} |->
        IF c = "\t" THEN 9
        ELSE IF c = "\n" THEN 10
        ELSE 31 + CHOOSE i \in DOMAIN PrintableAscii : PrintableAscii[i] = c]

\* `as_bytes()`, one character at a time
as_byte(c) == ascii_bytes[c]

\* line 327
BASE64_CHARS ==
    <<"A", "B", "C", "D", "E", "F", "G", "H", "I", "J", "K", "L",
      "M", "N", "O", "P", "Q", "R", "S", "T", "U", "V", "W", "X",
      "Y", "Z", "a", "b", "c", "d", "e", "f", "g", "h", "i", "j",
      "k", "l", "m", "n", "o", "p", "q", "r", "s", "t", "u", "v",
      "w", "x", "y", "z", "0", "1", "2", "3", "4", "5", "6", "7",
      "8", "9", "+", "/">>

\* lines 338-359: Base64Encoder::encode_block on a buffer of n bytes, the
\* rest of the buffer being zero
encode_block(b0, b1, b2, n) ==
    <<BASE64_CHARS[(b0 \div 4) + 1],
      BASE64_CHARS[((b0 % 4) * 16) + (IF n >= 2 THEN b1 \div 16 ELSE 0) + 1],
      IF n >= 2
      THEN BASE64_CHARS[((b1 % 16) * 4) + (IF n >= 3 THEN b2 \div 64 ELSE 0) + 1]
      ELSE "=",
      IF n >= 3 THEN BASE64_CHARS[(b2 % 64) + 1] ELSE "=">>

\* lines 309-318 and 369-381: write_all fills the buffer and encodes every
\* full block; lines 361-366: finish encodes what is left
RECURSIVE base64_encode(_)
base64_encode(input) ==
    IF input = <<>> THEN <<>>
    ELSE IF Len(input) = 1 THEN encode_block(as_byte(input[1]), 0, 0, 1)
    ELSE IF Len(input) = 2 THEN encode_block(as_byte(input[1]), as_byte(input[2]), 0, 2)
    ELSE encode_block(as_byte(input[1]), as_byte(input[2]), as_byte(input[3]), 3)
            \o base64_encode(SubSeq(input, 4, Len(input)))

\* http's HeaderValue::from_str: every byte is 32 or more and not 127, or
\* is a tab
is_valid(b) == (b >= 32 /\ b # 127) \/ b = 9

HeaderValue_from_str(src) ==
    IF \A i \in DOMAIN src : is_valid(as_byte(src[i])) THEN Ok(src) ELSE Err("InvalidHeaderValue")

\* lines 140-146: header_value
header_value(creds) ==
    IF creds.auth_type = "Bearer"
    THEN <<"B", "e", "a", "r", "e", "r", " ">> \o creds.password
    ELSE <<"B", "a", "s", "i", "c", " ">>
            \o base64_encode(creds.username \o <<":">> \o creds.password)

\* lines 147-149: `if let Ok(val) = ... { headers.insert(AUTHORIZATION, val) }`
insert_if_ok(headers, name, val) ==
    IF val.ok THEN headers \cup {[name |-> name, value |-> val.val]} ELSE headers

\* GerritClient::auth_headers: the HeaderMap, a set of name-value pairs
auth_headers(creds) ==
    IF creds = None THEN {}
    ELSE insert_if_ok({}, "authorization", HeaderValue_from_str(header_value(creds.val)))

\* lines 157-160: the request get_once builds and sends
Request(to, headers) == [url |-> to, headers |-> headers]

---------------------------------------------------------------------------
(* gerrit.rs: GerritClient::set_credentials and GerritClient::get *)

RequestContext == "Gerrit API request to {path}"
ExhaustedContext == "Gerrit API request to {path} (exhausted retries)"

\* anyhow's Err(e).context(c)
WithContext(e, c) == [ok |-> FALSE, err |-> e, context |-> c]

\* a backoff that grows by one second instead of doubling
delay_linear(a) == a + 1

\* Duration::from_secs(1 << attempt)
delay(a) == 2 ^ a

CallIdle ==
    /\ pc = "idle"
    /\ path = <<>>
    /\ url = None
    /\ attempt = 0
    /\ last_err = None
    /\ raws = <<>>
    /\ attempts = <<>>
    /\ sleeps = <<>>
    /\ requests = <<>>
    /\ result = None

RestIdle ==
    /\ base_path = <<"/">>
    /\ credentials = None
    /\ CallIdle

RestInit ==
    /\ base_path \in BasePaths
    /\ credentials \in {None} \cup {Some(c) : c \in CredentialSet}
    /\ CallIdle

\* GerritClient::set_credentials (&mut self: no call of get is in flight)
SetCredentials(creds) ==
    /\ pc = "idle"
    /\ credentials' = Some(creds)
    /\ UNCHANGED <<base_path, pc, path, url, attempt, last_err, raws, attempts, sleeps, requests, result>>
    /\ UNCHANGED nonRestVars

\* GerritClient::get, up to the loop: let url = self.api_url(path)?
GetBegin(p) ==
    /\ pc = "idle"
    /\ path' = p
    /\ url' = Some(api_url(p))
    /\ attempt' = 0
    /\ last_err' = None
    /\ pc' = "attempt"
    /\ UNCHANGED <<base_path, credentials, raws, attempts, sleeps, requests, result>>
    /\ UNCHANGED nonRestVars

\* one iteration of the loop of get, up to its return or its sleep
GetAttempt(raw) ==
    /\ pc = "attempt"
    /\ attempt <= MAX_RETRIES
    /\ LET r == get_once(raw)
       IN  /\ raws' = Append(raws, raw)
           /\ requests' = Append(requests, Request(url.val, auth_headers(credentials)))
           /\ attempts' = Append(attempts, r)
           /\ IF r.ok
              THEN /\ result' = Some(Ok(r.val))
                   /\ pc' = "done"
                   /\ UNCHANGED sleeps
              ELSE IF is_retryable(r.err) /\ attempt < MAX_RETRIES
              THEN /\ sleeps' = Append(sleeps, delay(attempt))
                   /\ pc' = "sleep"
                   /\ UNCHANGED result
              ELSE /\ result' = Some(WithContext(r.err, RequestContext))
                   /\ pc' = "done"
                   /\ UNCHANGED sleeps
    /\ UNCHANGED <<base_path, credentials, path, url, attempt, last_err>>
    /\ UNCHANGED nonRestVars

\* the sleep of get ends: last_err = Some(e), and the loop goes on or, with
\* the range 0..=MAX_RETRIES used up, get returns what follows the loop
GetWake ==
    /\ pc = "sleep"
    /\ last_err' = Some(attempts[Len(attempts)].err)
    /\ attempt' = attempt + 1
    /\ IF attempt + 1 <= MAX_RETRIES
       THEN /\ pc' = "attempt"
            /\ UNCHANGED result
       ELSE /\ pc' = "done"
            /\ result' = Some(WithContext(last_err'.val, ExhaustedContext))
    /\ UNCHANGED <<base_path, credentials, path, url, raws, attempts, sleeps, requests>>
    /\ UNCHANGED nonRestVars

\* the caller takes the result; the client is ready for the next call
GetReturn ==
    /\ pc = "done"
    /\ pc' = "idle"
    /\ path' = <<>>
    /\ url' = None
    /\ attempt' = 0
    /\ last_err' = None
    /\ raws' = <<>>
    /\ attempts' = <<>>
    /\ sleeps' = <<>>
    /\ requests' = <<>>
    /\ result' = None
    /\ UNCHANGED <<base_path, credentials>>
    /\ UNCHANGED nonRestVars

NextRest ==
    \/ \E c \in CredentialSet : SetCredentials(c)
    \/ \E p \in EndpointPaths : GetBegin(p)
    \/ \E raw \in RawOutcomes : GetAttempt(raw)
    \/ GetWake
    \/ GetReturn

---------------------------------------------------------------------------
(* strip_xssi_prefix on every body up to a length *)

MaxBodyLen == 6

XssiAlphabet == {")", "]", "}", "'", "\n", "1"}

XssiIdle ==
    /\ xssi_body = <<>>
    /\ xssi_out = None

XssiInit ==
    /\ xssi_body \in SeqUpTo(XssiAlphabet, MaxBodyLen)
    /\ xssi_out = None

\* a call strip_xssi_prefix(&body)
StripXssi ==
    /\ xssi_out = None
    /\ xssi_out' = Some(strip_xssi_prefix(xssi_body))
    /\ UNCHANGED xssi_body
    /\ UNCHANGED nonXssiVars

NextXssi == StripXssi

---------------------------------------------------------------------------
(* config.rs: URL rewrite rules *)

MaxConfigLines == 2
MaxUrlLen == 2

\* the <old> and <new> prefixes of `url.<new>.insteadOf = <old>`
OldPrefixes == {<<>>, <<"a">>, <<"a", "b">>}
NewPrefixes == {<<>>, <<"x">>}

\* one line `key=value` of `git config --list`, by what populate_rewrites
\* makes of its key: kind "insteadof" is a key url.<base>.insteadof (in
\* any case), "pushinsteadof" a key url.<base>.pushinsteadof, "other" any
\* other line
ConfigLines ==
    {[kind |-> k, base |-> n, value |-> o] :
        k \in {"insteadof", "pushinsteadof"}, n \in NewPrefixes, o \in OldPrefixes}
    \cup {[kind |-> "other", base |-> <<>>, value |-> <<>>]}

\* UrlRewrites::default()
DefaultRewrites == [instead_of |-> <<>>, push_instead_of |-> <<>>]

\* populate_rewrites: each rule is pushed as (value, base) = (old, new)
RECURSIVE populate_rewrites_from(_, _)
populate_rewrites_from(lines, rw) ==
    IF lines = <<>> THEN rw
    ELSE LET line == Head(lines)
             next == CASE line.kind = "insteadof" ->
                            [rw EXCEPT !.instead_of = Append(@, <<line.value, line.base>>)]
                       [] line.kind = "pushinsteadof" ->
                            [rw EXCEPT !.push_instead_of = Append(@, <<line.value, line.base>>)]
                       [] OTHER -> rw
         IN  populate_rewrites_from(Tail(lines), next)

populate_rewrites(lines) == populate_rewrites_from(lines, DefaultRewrites)

\* the loop of longest_match_replace from rule i on, with its two locals
RECURSIVE best_match_from(_, _, _, _, _)
best_match_from(u, rules, i, best_match, best_len) ==
    IF i > Len(rules) THEN best_match
    ELSE LET prefix == rules[i][1]
             replacement == rules[i][2]
         IN  IF StartsWith(u, prefix) /\ Len(prefix) > best_len
             THEN best_match_from(u, rules, i + 1, Some(<<prefix, replacement>>), Len(prefix))
             ELSE best_match_from(u, rules, i + 1, best_match, best_len)

\* longest_match_replace
longest_match_replace(u, rules) ==
    LET best_match == best_match_from(u, rules, 1, None, 0)
    IN  IF best_match.some
        THEN Some(best_match.val[2] \o SliceFrom(u, Len(best_match.val[1])))
        ELSE None

\* alias_url
alias_url(u, rw, for_push) ==
    LET pushed == IF for_push THEN longest_match_replace(u, rw.push_instead_of) ELSE None
        aliased == longest_match_replace(u, rw.instead_of)
    IN  IF for_push /\ pushed.some THEN pushed.val
        ELSE IF aliased.some THEN aliased.val
        ELSE u

GitIdle ==
    /\ config_list = Ok(<<>>)
    /\ remote_pushurl = None
    /\ remote_url = None

AliasIdle ==
    /\ rewrites = None
    /\ alias_call = None

AliasInit ==
    /\ config_list \in {Ok(l) : l \in SeqUpTo(ConfigLines, MaxConfigLines)}
    /\ remote_pushurl = None
    /\ remote_url = None
    /\ AliasIdle

\* rewrites = populate_rewrites(&out) on the output of git_config_list
PopulateRewrites ==
    /\ config_list.ok
    /\ rewrites = None
    /\ rewrites' = Some(populate_rewrites(config_list.val))
    /\ UNCHANGED <<alias_call, gitVars>>
    /\ UNCHANGED nonAliasVars

\* a call alias_url(u, &rewrites, for_push)
AliasUrl(u, for_push) ==
    /\ rewrites.some
    /\ alias_call = None
    /\ alias_call' = Some([url |-> u, for_push |-> for_push,
                           out |-> alias_url(u, rewrites.val, for_push)])
    /\ UNCHANGED <<rewrites, gitVars>>
    /\ UNCHANGED nonAliasVars

\* the caller takes the result
AliasReturn ==
    /\ alias_call # None
    /\ alias_call' = None
    /\ UNCHANGED <<rewrites, gitVars>>
    /\ UNCHANGED nonAliasVars

NextAlias ==
    \/ PopulateRewrites
    \/ \E u \in SeqUpTo({"a", "b"}, MaxUrlLen), for_push \in BOOLEAN : AliasUrl(u, for_push)
    \/ AliasReturn

---------------------------------------------------------------------------
(* review_query.rs: resolve_remote_url *)

\* values of remote.<name>.pushurl and remote.<name>.url, and fallbacks
ConfiguredUrls == {<<>>, <<"a">>, <<"a", "b">>}

GitError == "git failed"

\* resolve_remote_url that looks at the fetch URL before the push URL
resolve_remote_url_fetch_first(list, pushurl_read, url_read, fallback_url) ==
    LET rw == IF list.ok THEN populate_rewrites(list.val) ELSE DefaultRewrites
    IN  IF ~pushurl_read.ok THEN Err(pushurl_read.err)
        ELSE IF ~url_read.ok THEN Err(url_read.err)
        ELSE LET pushurl == pushurl_read.val
                 url_raw == url_read.val
                 u == IF url_raw.some THEN alias_url(url_raw.val, rw, TRUE)
                      ELSE IF pushurl.some THEN alias_url(pushurl.val, rw, FALSE)
                      ELSE IF fallback_url.some THEN fallback_url.val
                      ELSE <<>>
             IN  IF u = <<>> THEN Ok(None) ELSE Ok(Some(u))

\* resolve_remote_url, given the results of git_config_list and of the two
\* git_config_get reads
resolve_remote_url(list, pushurl_read, url_read, fallback_url) ==
    LET rw == IF list.ok THEN populate_rewrites(list.val) ELSE DefaultRewrites
    IN  IF ~pushurl_read.ok THEN Err(pushurl_read.err)
        ELSE IF ~url_read.ok THEN Err(url_read.err)
        ELSE LET pushurl == pushurl_read.val
                 url_raw == url_read.val
                 u == IF pushurl.some THEN alias_url(pushurl.val, rw, FALSE)
                      ELSE IF url_raw.some THEN alias_url(url_raw.val, rw, TRUE)
                      ELSE IF fallback_url.some THEN fallback_url.val
                      ELSE <<>>
             IN  IF u = <<>> THEN Ok(None) ELSE Ok(Some(u))

ResolveIdle == resolve_call = None

ResolveInit ==
    /\ config_list \in {Err(GitError)} \cup {Ok(l) : l \in SeqUpTo(ConfigLines, MaxConfigLines)}
    /\ remote_pushurl \in {None} \cup {Some(u) : u \in ConfiguredUrls}
    /\ remote_url \in {None} \cup {Some(u) : u \in ConfiguredUrls}
    /\ ResolveIdle

\* git_config_get(key): the configured value, or an error when git fails
git_config_get(value, read_ok) == IF read_ok THEN Ok(value) ELSE Err(GitError)

\* a call resolve_remote_url(remote, work_dir, fallback_url)
ResolveRemoteUrl(fallback_url, pushurl_ok, url_ok) ==
    /\ resolve_call = None
    /\ resolve_call' =
          Some([fallback_url |-> fallback_url, pushurl_ok |-> pushurl_ok, url_ok |-> url_ok,
                out |-> resolve_remote_url(config_list,
                                           git_config_get(remote_pushurl, pushurl_ok),
                                           git_config_get(remote_url, url_ok),
                                           fallback_url)])
    /\ UNCHANGED gitVars
    /\ UNCHANGED nonResolveVars

\* the caller takes the result
ResolveReturn ==
    /\ resolve_call # None
    /\ resolve_call' = None
    /\ UNCHANGED gitVars
    /\ UNCHANGED nonResolveVars

NextResolve ==
    \/ \E f \in {None} \cup {Some(u) : u \in ConfiguredUrls}, pushurl_ok \in BOOLEAN, url_ok \in BOOLEAN :
            ResolveRemoteUrl(f, pushurl_ok, url_ok)
    \/ ResolveReturn

---------------------------------------------------------------------------
(* review_query.rs: the query dispatcher *)

HttpPrefix == <<"h", "t", "t", "p", ":", "/", "/">>
HttpsPrefix == <<"h", "t", "t", "p", "s", ":", "/", "/">>

\* is_http_remote that tests the scheme's letters without the "://"
is_http_remote_loose(u) == StartsWith(u, <<"h", "t", "t", "p">>)

\* is_http_remote
is_http_remote(u) == StartsWith(u, HttpPrefix) \/ StartsWith(u, HttpsPrefix)

\* remote URLs: what stands where a scheme would, a separator, the rest
UrlHeads ==
    {<<"h", "t", "t", "p">>, <<"h", "t", "t", "p", "s">>, <<"s", "s", "h">>,
     <<"h", "t", "t">>, <<"h", "t", "t", "p", "x">>, <<"H", "T", "T", "P">>,
     <<"x", "h", "t", "t", "p">>, <<"g", "@", "h">>, <<>>}
UrlSeparators == {<<":", "/", "/">>, <<":", "/">>, <<":">>, <<"/">>}
UrlRests == {<<"h", "/", "p">>, <<"h", "t", "t", "p", ":", "/", "/", "p">>}
RemoteUrls == {h \o s \o r : h \in UrlHeads, s \in UrlSeparators, r \in UrlRests}

\* the backend a dispatcher operation delegates to
backend_for(u) == IF is_http_remote(u) THEN "rest" ELSE "ssh"

DispatchIdle == dispatch_call = None

\* query_changes: `gerrit.query_changes(&query)` or
\* `ssh::query_changes_over_ssh(..)` is called
QueryChanges(u) ==
    /\ dispatch_call = None
    /\ dispatch_call' = [op |-> "query_changes", remote_url |-> u,
                         invoked |-> <<backend_for(u)>>, out |-> None]
    /\ UNCHANGED nonDispatchVars

\* get_change_all_revisions: `gerrit.get_change_all_revisions(change_id)` or
\* `ssh::get_change_all_revisions_ssh(..)` is called
GetChangeAllRevisions(u) ==
    /\ dispatch_call = None
    /\ dispatch_call' = [op |-> "get_change_all_revisions", remote_url |-> u,
                         invoked |-> <<backend_for(u)>>, out |-> None]
    /\ UNCHANGED nonDispatchVars

\* the backend's future completes; the dispatcher returns its result as is
BackendReturns(ok) ==
    /\ dispatch_call # None
    /\ dispatch_call.out = None
    /\ dispatch_call' = [dispatch_call EXCEPT !.out = Some([ok |-> ok, from |-> dispatch_call.invoked[1]])]
    /\ UNCHANGED nonDispatchVars

\* the caller takes the result
DispatchReturn ==
    /\ dispatch_call # None
    /\ dispatch_call.out # None
    /\ dispatch_call' = None
    /\ UNCHANGED nonDispatchVars

NextDispatch ==
    \/ \E u \in RemoteUrls : QueryChanges(u)
    \/ \E u \in RemoteUrls : GetChangeAllRevisions(u)
    \/ \E ok \in BOOLEAN : BackendReturns(ok)
    \/ DispatchReturn

---------------------------------------------------------------------------
(* review.rs: the revision resolver *)

\* the keys of ChangeInfo.revisions (commit hashes), and one that is no key
Shas == {"s1", "s2"}
UnknownSha == "s9"

\* RevisionInfo: `number` and `git_ref`
RevisionInfos == [number : {None, Some(1), Some(2)}, git_ref : {None, Some("r")}]

\* HashMap<String, RevisionInfo>
RevisionMaps == UNION {[keys -> RevisionInfos] : keys \in SUBSET Shas}

\* ChangeInfo: `revisions` and `current_revision`
ChangeInfos ==
    [revisions : {None} \cup {Some(m) : m \in RevisionMaps},
     current_revision : {None} \cup {Some(sha) : sha \in Shas \cup {UnknownSha}}]

\* the `patchset` argument
Patchsets == {None, Some(1), Some(2), Some(99)}

\* the orders in which iterating a HashMap can yield its keys
IterationOrders(m) ==
    {o \in [1..Cardinality(DOMAIN m) -> DOMAIN m] :
        \A i, j \in DOMAIN o : o[i] = o[j] => i = j}

\* anyhow errors: the message and what is formatted into it
AnyhowError(msg, args) == [msg |-> msg, args |-> args]
NoRevisionData == AnyhowError("change has no revision data", <<>>)
PatchsetNotFound(ps) == AnyhowError("patchset {} not found in change", <<ps>>)
NoCurrentRevision == AnyhowError("change has no current revision", <<>>)
CurrentNotInMap == AnyhowError("current revision not found in revision map", <<>>)

\* revisions taken as an empty map when the change has none
revisions_or_empty(change) ==
    IF change.revisions = None THEN Ok(<<>>) ELSE Ok(change.revisions.val)

\* `change.revisions.as_ref().context("change has no revision data")`
revisions_context(change) ==
    IF change.revisions = None THEN Err(NoRevisionData) ELSE Ok(change.revisions.val)

\* a test that accepts every revision
number_matches_any(rev, ps) == TRUE

\* `rev.number == Some(ps)`
number_matches(rev, ps) == rev.number = Some(ps)

\* a lookup that falls back to some revision of the map
revisions_get_or_any(revisions, key) ==
    IF key \in DOMAIN revisions THEN Some(<<key, revisions[key]>>)
    ELSE IF DOMAIN revisions = {} THEN None
    ELSE LET k == CHOOSE k \in DOMAIN revisions : TRUE IN Some(<<k, revisions[k]>>)

\* `revisions.get(current)`, with the key it was found under
revisions_get(revisions, key) ==
    IF key \in DOMAIN revisions THEN Some(<<key, revisions[key]>>) ELSE None

\* find_target_revision; `order` is the order in which `for (sha, rev) in
\* revisions` yields the entries of the map
find_target_revision(change, patchset, order) ==
    LET revisions == revisions_context(change)
    IN  IF ~revisions.ok THEN revisions
        ELSE IF patchset # None
        THEN LET hits == {i \in DOMAIN order :
                            number_matches(revisions.val[order[i]], patchset.val)}
             IN  IF hits # {}
                 THEN LET i == CHOOSE i \in hits : \A j \in hits : i <= j
                      IN  Ok(<<order[i], revisions.val[order[i]]>>)
                 ELSE Err(PatchsetNotFound(patchset.val))
        ELSE IF change.current_revision = None THEN Err(NoCurrentRevision)
        ELSE LET rev == revisions_get(revisions.val, change.current_revision.val)
             IN  IF rev = None THEN Err(CurrentNotInMap) ELSE Ok(rev.val)

\* the iteration orders of a change's revision map (one empty order when
\* the change has no map)
RevisionOrders(change) ==
    IF change.revisions = None THEN {<<>>} ELSE IterationOrders(change.revisions.val)

RevisionIdle == revision_call = None

\* one call of find_target_revision
FindTargetRevision(change, patchset, order) ==
    /\ revision_call = None
    /\ revision_call' = Some([change |-> change, patchset |-> patchset,
                              out |-> find_target_revision(change, patchset, order)])
    /\ UNCHANGED nonRevisionVars

\* the caller takes the result
RevisionReturn ==
    /\ revision_call # None
    /\ revision_call' = None
    /\ UNCHANGED nonRevisionVars

NextRevision ==
    \/ /\ revision_call = None
       /\ \E change \in ChangeInfos, patchset \in Patchsets :
            \E order \in RevisionOrders(change) :
                FindTargetRevision(change, patchset, order)
    \/ RevisionReturn

---------------------------------------------------------------------------
(* review.rs: the review commands *)

\* a call a command makes on `app.gerrit`, which is a GerritClient (app.rs:30)
GerritClientCall(op) == [target |-> "GerritClient", op |-> op]

\* what App::authenticate_and_verify does: it fails before any request
\* ("refused": plain HTTP without --insecure, or no credentials), or calls
\* get_self_account, which fails ("rejected") or succeeds ("verified")
AuthOutcomes == {"refused", "rejected", "verified"}

auth_calls(auth) ==
    IF auth = "refused" THEN <<>> ELSE <<GerritClientCall("get_self_account")>>

AuthError(auth) ==
    IF auth = "refused" THEN AnyhowError("acquiring credentials", <<>>)
    ELSE AnyhowError("verifying credentials against Gerrit", <<>>)

\* what `app.gerrit.get_change_all_revisions(&change_id).await` returns
FetchOutcomes ==
    {Err(AnyhowError("Gerrit API request", <<>>))} \cup {Ok(c) : c \in ChangeInfos}

\* what `app.gerrit.query_changes(&query).await` returns: the number of
\* changes listed, or an error
QueryOutcomes == {Err(AnyhowError("Gerrit API request", <<>>)), Ok(0), Ok(1)}

SubprocessError == AnyhowError("git subprocess failed", <<>>)

\* the commands with a "CHANGE[,PS]" argument, from the fetch on: the
\* calls made, what the fetch returned, and the result. `needs_number` is cmd_review_download's
\* `revision.number.context(..)`; `git_ok` is whether app.git.root() and
\* the git subprocesses that follow all succeed
fetch_and_apply(auth, fetched, patchset, order, needs_number, git_ok) ==
    IF auth # "verified"
    THEN [calls |-> auth_calls(auth), fetched |-> None, out |-> Err(AuthError(auth))]
    ELSE LET calls == auth_calls(auth) \o <<GerritClientCall("get_change_all_revisions")>>
             found == find_target_revision(fetched.val, patchset, order)
         IN  [calls |-> calls,
              fetched |-> Some(fetched),
              out |->
                IF ~fetched.ok THEN fetched
                ELSE IF ~found.ok THEN found
                ELSE IF needs_number /\ found.val[2].number = None
                THEN Err(AnyhowError("revision has no patchset number", <<>>))
                ELSE IF found.val[2].git_ref = None
                THEN Err(AnyhowError("revision has no ref", <<>>))
                ELSE IF ~git_ok THEN Err(SubprocessError)
                ELSE Ok(<<>>)]

\* the orders of the fetched change's revision map
FetchedOrders(fetched) ==
    IF fetched.ok THEN RevisionOrders(fetched.val) ELSE {<<>>}

CommandIdle == command_call = None

\* a run: the command, its patchset argument, and what it did
CommandRun(cmd, patchset, run) ==
    [cmd |-> cmd, patchset |-> patchset, calls |-> run.calls,
     fetched |-> run.fetched, out |-> run.out]

\* cmd_review_download
CmdReviewDownload(auth, fetched, patchset, order, git_ok) ==
    /\ command_call = None
    /\ command_call' =
          CommandRun("download", patchset,
                     fetch_and_apply(auth, fetched, patchset, order, TRUE, git_ok))
    /\ UNCHANGED nonCommandVars

\* cmd_review_cherrypick
CmdReviewCherrypick(auth, fetched, patchset, order, git_ok) ==
    /\ command_call = None
    /\ command_call' =
          CommandRun("cherrypick", patchset,
                     fetch_and_apply(auth, fetched, patchset, order, FALSE, git_ok))
    /\ UNCHANGED nonCommandVars

\* cmd_review_cherrypickindicate
CmdReviewCherrypickindicate(auth, fetched, patchset, order, git_ok) ==
    /\ command_call = None
    /\ command_call' =
          CommandRun("cherrypickindicate", patchset,
                     fetch_and_apply(auth, fetched, patchset, order, FALSE, git_ok))
    /\ UNCHANGED nonCommandVars

\* cmd_review_cherrypickonly
CmdReviewCherrypickonly(auth, fetched, patchset, order, git_ok) ==
    /\ command_call = None
    /\ command_call' =
          CommandRun("cherrypickonly", patchset,
                     fetch_and_apply(auth, fetched, patchset, order, FALSE, git_ok))
    /\ UNCHANGED nonCommandVars

\* cmd_review_compare, after parse_compare_arg gave (change_id, ps_from, ps_to)
CmdReviewCompare(auth, fetched, ps_from, ps_to, order, git_ok) ==
    LET from == fetch_and_apply(auth, fetched, Some(ps_from), order, FALSE, TRUE)
        to == fetch_and_apply(auth, fetched, ps_to, order, FALSE, git_ok)
    IN  /\ command_call = None
        /\ command_call' = CommandRun("compare", <<Some(ps_from), ps_to>>,
                                      IF from.out.ok THEN to ELSE from)
        /\ UNCHANGED nonCommandVars

\* cmd_review_list
CmdReviewList(listed) ==
    /\ command_call = None
    /\ command_call' =
          CommandRun("list", None,
                     [calls |-> <<GerritClientCall("query_changes")>>,
                      fetched |-> Some(listed),
                      out |-> IF listed.ok THEN Ok(<<>>) ELSE listed])
    /\ UNCHANGED nonCommandVars

\* the command returns to main
CommandReturn ==
    /\ command_call # None
    /\ command_call' = None
    /\ UNCHANGED nonCommandVars

NextCommand ==
    \/ /\ command_call = None
       /\ \E auth \in AuthOutcomes, fetched \in FetchOutcomes, patchset \in Patchsets,
          git_ok \in BOOLEAN :
            \E order \in FetchedOrders(fetched) :
                CmdReviewDownload(auth, fetched, patchset, order, git_ok)
    \/ /\ command_call = None
       /\ \E auth \in AuthOutcomes, fetched \in FetchOutcomes, patchset \in Patchsets,
          git_ok \in BOOLEAN :
            \E order \in FetchedOrders(fetched) :
                CmdReviewCherrypick(auth, fetched, patchset, order, git_ok)
    \/ /\ command_call = None
       /\ \E auth \in AuthOutcomes, fetched \in FetchOutcomes, patchset \in Patchsets,
          git_ok \in BOOLEAN :
            \E order \in FetchedOrders(fetched) :
                CmdReviewCherrypickindicate(auth, fetched, patchset, order, git_ok)
    \/ /\ command_call = None
       /\ \E auth \in AuthOutcomes, fetched \in FetchOutcomes, patchset \in Patchsets,
          git_ok \in BOOLEAN :
            \E order \in FetchedOrders(fetched) :
                CmdReviewCherrypickonly(auth, fetched, patchset, order, git_ok)
    \/ /\ command_call = None
       /\ \E auth \in AuthOutcomes, fetched \in FetchOutcomes,
          ps_from \in {1, 2, 99}, ps_to \in Patchsets, git_ok \in BOOLEAN :
            \E order \in FetchedOrders(fetched) :
                CmdReviewCompare(auth, fetched, ps_from, ps_to, order, git_ok)
    \/ \E listed \in QueryOutcomes : CmdReviewList(listed)
    \/ CommandReturn

---------------------------------------------------------------------------
(* comments.rs: the comment thread builder *)

\* byte order of the characters that occur in file paths and timestamps
Bytes == <<"0", "1", "2", "3", "4", "a", "b">>
ByteOf(ch) == CHOOSE i \in DOMAIN Bytes : Bytes[i] = ch

\* `a < b` of str: lexicographic by bytes, a proper prefix comes first
StrLess(a, b) ==
    \E i \in 1..(Len(b)) :
        /\ i <= Len(a) + 1
        /\ SubSeq(a, 1, i - 1) = SubSeq(b, 1, i - 1)
        /\ i = Len(a) + 1 \/ ByteOf(a[i]) < ByteOf(b[i])

\* slice::sort_by / sort_by_key, a stable sort: an element goes after the
\* elements that are less, and after the equal ones that stood before it
\* (`less` holds the pairs <<j, k>> of positions with s[j] less than s[k])
StableSort(s, less) ==
    LET before(j) == {k \in DOMAIN s : <<k, j>> \in less \/ (<<j, k>> \notin less /\ k < j)}
    IN  [i \in DOMAIN s |-> s[CHOOSE j \in DOMAIN s : Cardinality(before(j)) = i - 1]]

\* the concatenation of a sequence of sequences
RECURSIVE Flatten(_)
Flatten(ss) == IF ss = <<>> THEN <<>> ELSE Head(ss) \o Flatten(Tail(ss))

\* the i-th smallest element of a set of numbers
Nth(S, i) == CHOOSE x \in S : Cardinality({y \in S : y < x}) = i - 1

\* lines 68-73: all_comments, the (file, comment) pairs in the order the
\* map yields its files
all_comments_of(by_file, order) ==
    Flatten([i \in DOMAIN order |->
                [k \in DOMAIN by_file[order[i]] |-> <<order[i], by_file[order[i]][k]>>]])

\* lines 76-81: the keys of by_id
by_id_keys(all_comments) ==
    {all_comments[i][2].id.val : i \in {k \in DOMAIN all_comments : all_comments[k][2].id # None}}

\* a root test under which only a comment without reply-to id is a root
is_reply_any_parent(comment, ids) == comment.in_reply_to # None

\* line 89: `Some(parent_id) if by_id.contains_key(parent_id)`
is_reply(comment, ids) ==
    comment.in_reply_to # None /\ comment.in_reply_to.val \in ids

\* lines 84-99: roots
roots_of(all_comments) ==
    SelectSeq(all_comments, LAMBDA fc : ~is_reply(fc[2], by_id_keys(all_comments)))

\* lines 85-99: children, as the function from a parent id to its Vec
children_of(all_comments) ==
    LET ids == by_id_keys(all_comments)
        replies == SelectSeq(all_comments, LAMBDA fc : is_reply(fc[2], ids))
    IN  [id \in {replies[i][2].in_reply_to.val : i \in DOMAIN replies} |->
            LET mine == SelectSeq(replies, LAMBDA fc : fc[2].in_reply_to.val = id)
            IN  [i \in DOMAIN mine |-> mine[i][2]]]

\* a sort key that is the same for every reply
reply_key_none(comment) == <<>>

\* line 160: `c.updated.as_deref().unwrap_or("")`
reply_key(comment) == IF comment.updated = None THEN <<>> ELSE comment.updated.val

\* lines 145-155: the tuple collect_thread pushes
thread_tuple(comment) ==
    [author |-> IF comment.author = None THEN "Unknown" ELSE comment.author.val,
     patch_set |-> comment.patch_set,
     unresolved |-> IF comment.unresolved = None THEN TRUE ELSE comment.unresolved.val,
     date |-> IF comment.updated = None THEN <<>> ELSE comment.updated.val,
     message |-> IF comment.message = None THEN "" ELSE comment.message.val]

\* collect_thread: what it appends to `result`
RECURSIVE collect_thread(_, _)
collect_thread(comment, children) ==
    <<thread_tuple(comment)>> \o
    ( IF comment.id # None /\ comment.id.val \in DOMAIN children
      THEN LET replies == children[comment.id.val]
               sorted_replies ==
                   StableSort(replies,
                              {jk \in (DOMAIN replies) \X (DOMAIN replies) :
                                  StrLess(reply_key(replies[jk[1]]), reply_key(replies[jk[2]]))})
           IN  Flatten([i \in DOMAIN sorted_replies |->
                            collect_thread(sorted_replies[i], children)])
      ELSE <<>> )

\* resolved taken from the thread's first comment
resolved_of_first(thread_comments) ==
    IF thread_comments = <<>> THEN FALSE ELSE ~thread_comments[1].unresolved

\* line 109: `thread_comments.last().map(|c| !c.2).unwrap_or(false)`
resolved_of(thread_comments) ==
    IF thread_comments = <<>> THEN FALSE
    ELSE ~thread_comments[Len(thread_comments)].unresolved

\* lines 111-119: ThreadComment
thread_comment(t) ==
    [author |-> t.author, patch_set |-> t.patch_set, date |-> t.date, message |-> t.message]

\* a line key that puts file-level threads after line 1
line_key_last(line) == IF line = None THEN 2 ELSE line.val

\* line 133: `line.unwrap_or(0)`
line_key(line) == IF line = None THEN 0 ELSE line.val

\* lines 130-134: the comparator of threads.sort_by
thread_less(a, b) ==
    \/ StrLess(a.file, b.file)
    \/ a.file = b.file /\ line_key(a.line) < line_key(b.line)

\* build_threads; `order` is the order in which `for (file, comments) in
\* comments_by_file` yields the files
build_threads(by_file, order) ==
    LET all_comments == all_comments_of(by_file, order)
        roots == roots_of(all_comments)
        children == children_of(all_comments)
        threads ==
            [i \in DOMAIN roots |->
                LET thread_comments == collect_thread(roots[i][2], children)
                IN  [file |-> roots[i][1],
                     line |-> roots[i][2].line,
                     resolved |-> resolved_of(thread_comments),
                     comments |-> [k \in DOMAIN thread_comments |->
                                      thread_comment(thread_comments[k])]]]
    IN  StableSort(threads,
                   {jk \in (DOMAIN threads) \X (DOMAIN threads) :
                       thread_less(threads[jk[1]], threads[jk[2]])})

\* ---- the inputs

\* the files a comment can be filed under
Files == {<<"a">>, <<"a", "b">>}

\* ids of the comments of an input, in the order they are laid out, and an
\* id that no comment has
GeneralIds == <<"c1", "c2", "c3">>
DeepIds == <<"c1", "c2", "c3", "c4">>
DanglingId == "zz"

\* update timestamps: "10" sorts before "2" as a string
Updateds == {None, Some(<<"1", "0">>), Some(<<"2">>)}

\* a comment's line and unresolved field
LineAndUnresolved ==
    {[line |-> None, unresolved |-> None],
     [line |-> Some(1), unresolved |-> Some(TRUE)],
     [line |-> Some(2), unresolved |-> Some(FALSE)]}

\* CommentInfo; the message tells the comments of an input apart
CommentInfo(id, in_reply_to, updated, line, unresolved) ==
    [id |-> Some(id), in_reply_to |-> in_reply_to, updated |-> updated,
     line |-> line, unresolved |-> unresolved, message |-> Some(id),
     author |-> None, patch_set |-> None]

\* the map: each file's Vec holds its comments in layout order
by_file_of(comments, files) ==
    [f \in {files[p] : p \in DOMAIN comments} |->
        LET at == {p \in DOMAIN comments : files[p] = f}
        IN  [i \in 1..Cardinality(at) |-> comments[Nth(at, i)]]]

\* the reply-to ids of three comments: none, a dangling one, or the id of
\* another comment; Gerrit has no comment that replies, directly or through
\* others, to itself
GeneralReplies ==
    {r \in [DOMAIN GeneralIds ->
              {None, Some(DanglingId)} \cup {Some(GeneralIds[q]) : q \in DOMAIN GeneralIds}] :
        \A p, q, o \in DOMAIN GeneralIds :
            /\ r[p] # Some(GeneralIds[p])
            /\ ~(r[p] = Some(GeneralIds[q]) /\ r[q] = Some(GeneralIds[p]))
            /\ ~(r[p] = Some(GeneralIds[q]) /\ r[q] = Some(GeneralIds[o])
                    /\ r[o] = Some(GeneralIds[p]))}

\* where three comments are filed: the first under "a" (any other layout is
\* one of these with the comments renamed)
GeneralFiles == {f \in [DOMAIN GeneralIds -> Files] : f[1] = <<"a">>}

\* three comments with any timestamps, files, lines and unresolved fields
GeneralInput(r, u, v, files) ==
    by_file_of([p \in DOMAIN GeneralIds |->
                   CommentInfo(GeneralIds[p], r[p], u[p], v[p].line, v[p].unresolved)],
               files)

\* the reply-to ids of four comments written one after the other: each
\* replies to an earlier one or starts a thread
DeepReplies ==
    {r \in [DOMAIN DeepIds -> {None} \cup {Some(DeepIds[q]) : q \in DOMAIN DeepIds}] :
        \A p \in DOMAIN DeepIds :
            r[p] # None => \E q \in 1..(p - 1) : r[p] = Some(DeepIds[q])}

\* four comments of one file-level discussion, with ascending timestamps
DeepInput(r, un) ==
    by_file_of([p \in DOMAIN DeepIds |->
                   CommentInfo(DeepIds[p], r[p], Some(<<Bytes[p + 1]>>), None, Some(un[p]))],
               [p \in DOMAIN DeepIds |-> <<"a">>])

ThreadIdle == comments_by_file = <<>> /\ threads_call = None

ThreadInit ==
    /\ \/ \E r \in GeneralReplies, u \in [DOMAIN GeneralIds -> Updateds],
            v \in [DOMAIN GeneralIds -> LineAndUnresolved],
            files \in GeneralFiles :
                comments_by_file = GeneralInput(r, u, v, files)
       \/ \E r \in DeepReplies, un \in [DOMAIN DeepIds -> BOOLEAN] :
                comments_by_file = DeepInput(r, un)
    /\ threads_call = None

\* one call of build_threads
BuildThreads(order) ==
    /\ threads_call = None
    /\ threads_call' = Some(build_threads(comments_by_file, order))
    /\ UNCHANGED comments_by_file
    /\ UNCHANGED nonThreadVars

\* the caller takes the threads
ThreadsReturn ==
    /\ threads_call # None
    /\ threads_call' = None
    /\ UNCHANGED comments_by_file
    /\ UNCHANGED nonThreadVars

NextThreads ==
    \/ \E order \in IterationOrders(comments_by_file) : BuildThreads(order)
    \/ ThreadsReturn

---------------------------------------------------------------------------
(* review_query.rs, mod ssh: the SSH query backend *)

\* ---- JSON values of one output line, as serde_json::Value holds them
JAbsent == [t |-> "absent"]
JNull == [t |-> "null"]
JBool(b) == [t |-> "bool", b |-> b]
JNumber(n) == [t |-> "number", n |-> n]
JString(s) == [t |-> "string", s |-> s]
JArray(items) == [t |-> "array", items |-> items]

\* a patch set object: {"number": .., "ref": .., "revision": ..}
JPatchSet(number, ref, revision) ==
    [t |-> "object", number |-> number, ref |-> ref, revision |-> revision]

\* the lines of the output after `line.trim()`: text that does not start
\* with '{', text that starts with '{' and is no JSON value, and an object
TextLine == [kind |-> "text"]
BrokenLine == [kind |-> "broken"]
ObjectLine(type, subject, status, updated, currentPatchSet, patchSets) ==
    [kind |-> "object", type |-> type, subject |-> subject, status |-> status,
     updated |-> updated, currentPatchSet |-> currentPatchSet, patchSets |-> patchSets]

\* ---- str helpers

Digits == <<"0", "1", "2", "3", "4", "5", "6", "7", "8", "9">>
IsDigit(ch) == \E d \in DOMAIN Digits : Digits[d] = ch
DigitValue(ch) == (CHOOSE d \in DOMAIN Digits : Digits[d] = ch) - 1

I32_MAX == 2147483647

\* the number a string of decimal digits denotes
RECURSIVE DecimalValue(_)
DecimalValue(s) ==
    IF s = <<>> THEN 0
    ELSE 10 * DecimalValue(SubSeq(s, 1, Len(s) - 1)) + DigitValue(s[Len(s)])

\* i32::try_from
in_i32(value) ==
    IF 0 - I32_MAX - 1 <= value /\ value <= I32_MAX
    THEN Ok(value)
    ELSE Err("number too large to fit in target type")

\* the digits of str::parse::<i32>: one or more, in range
parse_digits(negative, digits) ==
    IF digits # <<>> /\ (\A i \in DOMAIN digits : IsDigit(digits[i]))
    THEN in_i32(IF negative THEN 0 - DecimalValue(digits) ELSE DecimalValue(digits))
    ELSE Err("invalid digit found in string")

\* str::parse::<i32>: an optional sign, then the digits
parse_i32(s) ==
    IF Len(s) > 0 /\ s[1] \in {"+", "-"}
    THEN parse_digits(s[1] = "-", Tail(s))
    ELSE parse_digits(FALSE, s)

\* i64::to_string
RECURSIVE to_string(_)
to_string(n) ==
    IF n < 0 THEN <<"-">> \o to_string(0 - n)
    ELSE IF n < 10 THEN <<Digits[n + 1]>>
    ELSE to_string(n \div 10) \o <<Digits[(n % 10) + 1]>>

\* char::is_whitespace, on the characters that occur
IsWhitespace(ch) == ch \in {" ", "\n", "\t", "\r"}

\* str::trim_start
RECURSIVE trim_start(_)
trim_start(s) ==
    IF Len(s) > 0 /\ IsWhitespace(s[1]) THEN trim_start(Tail(s)) ELSE s

\* str::trim_end
RECURSIVE trim_end(_)
trim_end(s) ==
    IF Len(s) > 0 /\ IsWhitespace(s[Len(s)])
    THEN trim_end(SubSeq(s, 1, Len(s) - 1))
    ELSE s

\* a trim that leaves what follows the text in place
trim_start_only(s) == trim_start(s)

\* str::trim
trim(s) == trim_end(trim_start(s))

\* ---- serde: the fields of SshChangeRaw and SshPatchSet

InvalidType == "invalid type"
OutOfRange == "patch set number out of range"
NotAnInteger == "patch set number not a valid integer"

\* Option<String> as serde derives it: a missing key and null are None
deserialize_option_string(j) ==
    IF j.t \in {"absent", "null"} THEN Ok(None)
    ELSE IF j.t = "string" THEN Ok(Some(j.s))
    ELSE Err(InvalidType)

\* `.map(Some).ok_or_else(..)` and `.map(Some).map_err(..)`
some_or(r, e) == IF r.ok THEN Ok(Some(r.val)) ELSE Err(e)

\* a reader of patch set numbers that takes JSON numbers only
deserialize_optional_i32_strict(j) ==
    IF j.t = "number" THEN some_or(in_i32(j.n), OutOfRange) ELSE Ok(None)

\* lines 207-226: deserialize_optional_i32_flexible (the key is present)
deserialize_optional_i32_flexible(j) ==
    IF j.t = "number" THEN some_or(in_i32(j.n), OutOfRange)
    ELSE IF j.t = "string" THEN some_or(parse_i32(j.s), NotAnInteger)
    ELSE Ok(None)

\* lines 229-240: deserialize_optional_string_flexible (`default`: a missing
\* key is None)
deserialize_optional_string_flexible(j) ==
    IF j.t \in {"absent", "null"} THEN Ok(None)
    ELSE IF j.t = "string" THEN Ok(Some(j.s))
    ELSE IF j.t = "number" THEN Ok(Some(to_string(j.n)))
    ELSE Ok(None)

\* a struct of three fields: the first field that fails, or the struct
SshPatchSet(number, git_ref, revision) ==
    IF ~number.ok THEN number
    ELSE IF ~git_ref.ok THEN git_ref
    ELSE IF ~revision.ok THEN revision
    ELSE Ok([number |-> number.val, git_ref |-> git_ref.val, revision |-> revision.val])

\* lines 197-204: SshPatchSet, derived Deserialize
deserialize_SshPatchSet(j) ==
    SshPatchSet(deserialize_optional_i32_flexible(j.number),
                deserialize_option_string(j.ref),
                deserialize_option_string(j.revision))

\* Result<T> to Result<Option<T>>
some_of(r) == IF r.ok THEN Ok(Some(r.val)) ELSE r

\* Option<SshPatchSet>
deserialize_current_patch_set(j) ==
    IF j.t \in {"absent", "null"} THEN Ok(None)
    ELSE IF j.t = "object" THEN some_of(deserialize_SshPatchSet(j))
    ELSE Err(InvalidType)

\* a Vec of results: the first that fails, or the Vec of the values
all_of(each) ==
    IF \E i \in DOMAIN each : ~each[i].ok
    THEN each[CHOOSE i \in DOMAIN each : ~each[i].ok /\ \A k \in 1..(i - 1) : each[k].ok]
    ELSE Ok(Some([i \in DOMAIN each |-> each[i].val]))

\* Option<Vec<SshPatchSet>>
deserialize_patch_sets(j) ==
    IF j.t \in {"absent", "null"} THEN Ok(None)
    ELSE IF j.t = "array"
    THEN all_of([i \in DOMAIN j.items |-> deserialize_SshPatchSet(j.items[i])])
    ELSE Err(InvalidType)

\* the struct: the first field that fails, or the struct
SshChangeRaw(subject, status, updated, current_patch_set, patch_sets) ==
    IF ~subject.ok THEN subject
    ELSE IF ~status.ok THEN status
    ELSE IF ~updated.ok THEN updated
    ELSE IF ~current_patch_set.ok THEN current_patch_set
    ELSE IF ~patch_sets.ok THEN patch_sets
    ELSE Ok([subject |-> subject.val, status |-> status.val, updated |-> updated.val,
             current_patch_set |-> current_patch_set.val,
             patch_sets |-> patch_sets.val])

\* lines 166-195: SshChangeRaw, derived Deserialize, from an object line
deserialize_SshChangeRaw(line) ==
    SshChangeRaw(deserialize_option_string(line.subject),
                 deserialize_option_string(line.status),
                 deserialize_optional_string_flexible(line.updated),
                 deserialize_current_patch_set(line.currentPatchSet),
                 deserialize_patch_sets(line.patchSets))

\* ---- lines 242-326: ssh_change_to_change_info

\* HashMap::insert
insert(m, k, v) == [x \in DOMAIN m \cup {k} |-> IF x = k THEN v ELSE m[x]]

\* lines 248-249: the patch sets the loop puts into `revs`
is_collected(ps) == ps.revision # None /\ ps.number # None /\ ps.git_ref # None

\* a test under which no patch set is the current one
cps_matches_never(current_patch_set, num) == FALSE

\* lines 258-262: `.map(|cps| cps.number == Some(num)).unwrap_or(false)`
cps_matches(current_patch_set, num) ==
    current_patch_set # None /\ current_patch_set.val.number = Some(num)

\* lines 250-269: the body of the loop for a patch set that is collected
collect(acc, rev, num, git_ref, current_patch_set) ==
    [revs |-> insert(acc.revs, rev, [number |-> Some(num), git_ref |-> git_ref]),
     current |-> IF cps_matches(current_patch_set, num) THEN Some(rev) ELSE acc.current,
     highest_num |-> IF acc.highest_num = None \/ num > acc.highest_num.val
                     THEN Some(num) ELSE acc.highest_num]

\* lines 247-270: the loop over patch_sets; acc holds revs, current and
\* highest_num
RECURSIVE collect_patch_sets(_, _, _)
collect_patch_sets(patch_sets, current_patch_set, acc) ==
    IF patch_sets = <<>> THEN acc
    ELSE IF is_collected(Head(patch_sets))
    THEN collect_patch_sets(Tail(patch_sets), current_patch_set,
                            collect(acc, Head(patch_sets).revision.val,
                                    Head(patch_sets).number.val,
                                    Head(patch_sets).git_ref, current_patch_set))
    ELSE collect_patch_sets(Tail(patch_sets), current_patch_set, acc)

\* lines 278-282: `patch_sets.iter().find(|ps| ps.number == Some(hn))
\* .and_then(|ps| ps.revision.clone())`
find_highest(patch_sets, hn) ==
    IF \E i \in DOMAIN patch_sets : patch_sets[i].number = Some(hn)
    THEN patch_sets[CHOOSE i \in DOMAIN patch_sets :
                        /\ patch_sets[i].number = Some(hn)
                        /\ \A k \in 1..(i - 1) : patch_sets[k].number # Some(hn)].revision
    ELSE None

\* lines 271-284: `current` after the loop
current_after(acc, current_patch_set, patch_sets) ==
    IF acc.current # None THEN acc.current
    ELSE IF current_patch_set # None /\ current_patch_set.val.revision # None
    THEN current_patch_set.val.revision
    ELSE IF acc.highest_num # None THEN find_highest(patch_sets, acc.highest_num.val)
    ELSE None

\* line 285: `(Some(revs), current)`
revisions_after(acc, current_patch_set, patch_sets) ==
    [revisions |-> Some(acc.revs),
     current_revision |-> current_after(acc, current_patch_set, patch_sets)]

\* lines 243-306: (revisions, current_revision)
revisions_of(raw) ==
    IF raw.patch_sets # None
    THEN revisions_after(collect_patch_sets(raw.patch_sets.val, raw.current_patch_set,
                                            [revs |-> <<>>, current |-> None,
                                             highest_num |-> None]),
                         raw.current_patch_set, raw.patch_sets.val)
    ELSE IF raw.current_patch_set # None /\ is_collected(raw.current_patch_set.val)
    THEN [revisions |-> Some(insert(<<>>, raw.current_patch_set.val.revision.val,
                                    [number |-> raw.current_patch_set.val.number,
                                     git_ref |-> raw.current_patch_set.val.git_ref])),
          current_revision |-> raw.current_patch_set.val.revision]
    ELSE [revisions |-> None, current_revision |-> None]

\* lines 308-325: ChangeInfo, with the fields the model follows
ChangeInfo(raw, revs) ==
    [subject |-> raw.subject, status |-> raw.status, updated |-> raw.updated,
     current_revision |-> revs.current_revision, revisions |-> revs.revisions]

ssh_change_to_change_info(raw) == ChangeInfo(raw, revisions_of(raw))

\* ---- lines 476-495: parse_ssh_query_output

ParseContext == "parsing SSH query JSON line"

\* a test that finds no `type` key
has_type_field_never(line) == FALSE

\* line 487: `data.get("type").is_some()`
has_type_field(line) == line.type # JAbsent

\* lines 490-492: the change of a line, or the failure of the call
change_of(raw) ==
    IF raw.ok THEN Ok(ssh_change_to_change_info(raw.val))
    ELSE WithContext(raw.err, ParseContext)

\* the loop over output.lines(), `changes` being the Vec built so far
RECURSIVE parse_lines(_, _)
RECURSIVE push_change(_, _, _)
push_change(change, lines, changes) ==
    IF change.ok THEN parse_lines(lines, Append(changes, change.val)) ELSE change

parse_lines(lines, changes) ==
    IF lines = <<>> THEN Ok(changes)
    ELSE IF Head(lines).kind = "text" THEN parse_lines(Tail(lines), changes)
    ELSE IF Head(lines).kind = "broken" THEN parse_lines(Tail(lines), changes)
    ELSE IF has_type_field(Head(lines)) THEN parse_lines(Tail(lines), changes)
    ELSE push_change(change_of(deserialize_SshChangeRaw(Head(lines))), Tail(lines), changes)

parse_ssh_query_output(output) == parse_lines(output, <<>>)

\* ---- lines 330-394: parse_gerrit_ssh_params

\* str::contains
Contains(s, sub) == \E i \in 0..(Len(s) - Len(sub)) : SubSeq(s, i + 1, i + Len(sub)) = sub

\* str::rsplit_once(ch)
RSplitOnce(s, ch) ==
    IF \E i \in 1..Len(s) : s[i] = ch
    THEN LET i == CHOOSE k \in 1..Len(s) : s[k] = ch /\ \A j \in (k + 1)..Len(s) : s[j] # ch
         IN  Some(<<SubSeq(s, 1, i - 1), SubSeq(s, i + 1, Len(s))>>)
    ELSE None

\* str::trim_start_matches(ch)
RECURSIVE TrimStartMatches(_, _)
TrimStartMatches(s, ch) ==
    IF Len(s) > 0 /\ s[1] = ch THEN TrimStartMatches(Tail(s), ch) ELSE s

\* `s.strip_suffix(suffix).unwrap_or(s)`
StripSuffixOr(s, suffix) ==
    IF Len(suffix) <= Len(s) /\ SubSeq(s, Len(s) - Len(suffix) + 1, Len(s)) = suffix
    THEN SubSeq(s, 1, Len(s) - Len(suffix))
    ELSE s

SshScheme == <<"s", "s", "h", ":", "/", "/">>
DotGit == <<".", "g", "i", "t">>
U16_MAX == 65535

\* `user@host` or `host`
user_and_host(at, userhost, port) ==
    IF at.some THEN Ok([hostname |-> at.val[2], username |-> Some(at.val[1]), port |-> port])
    ELSE Ok([hostname |-> userhost, username |-> None, port |-> port])

split_user(userhost, port) == user_and_host(RSplitOnce(userhost, "@"), userhost, port)

\* str::parse::<u16>
parse_u16(s) ==
    IF s # <<>> /\ \A i \in DOMAIN s : IsDigit(s[i])
    THEN IF DecimalValue(s) <= U16_MAX THEN Ok(DecimalValue(s)) ELSE Err("too large")
    ELSE Err("invalid digit found in string")

with_port(userhost, port) ==
    IF port.ok THEN split_user(userhost, Some(port.val))
    ELSE Err(AnyhowError("parsing port from URL", <<>>))

split_port(colon, userhost) ==
    IF colon.some
    THEN with_port(colon.val[1],
                   parse_u16(IF StartsWith(colon.val[2], <<"+">>) THEN Tail(colon.val[2])
                             ELSE colon.val[2]))
    ELSE split_user(userhost, None)

\* lines 377-391: parse_userhost
parse_userhost(userhost) == split_port(RSplitOnce(userhost, ":"), userhost)

with_project(uh, project) ==
    IF uh.ok
    THEN Ok([hostname |-> uh.val.hostname, username |-> uh.val.username,
             port |-> uh.val.port, project |-> project])
    ELSE uh

ssh_url_parts(parts) ==
    IF ~parts.some THEN Err(AnyhowError("SSH URL has no path component", <<>>))
    ELSE with_project(parse_userhost(parts.val[1]),
                      StripSuffixOr(TrimStartMatches(parts.val[2], "/"), DotGit))

\* lines 341-356: parse_ssh_url_format
parse_ssh_url_format(u) ==
    IF ~StartsWith(u, SshScheme) THEN Err(AnyhowError("expected ssh:// URL", <<>>))
    ELSE ssh_url_parts(SplitOnce(SliceFrom(u, Len(SshScheme)), "/"))

scp_parts(parts) ==
    IF ~parts.some THEN Err(AnyhowError("SCP URL must have host:path form", <<>>))
    ELSE IF StartsWith(parts.val[2], <<"/", "/">>)
    THEN Err(AnyhowError("ambiguous SCP URL (path starts with //)", <<>>))
    ELSE with_project(split_user(parts.val[1], None), StripSuffixOr(parts.val[2], DotGit))

\* lines 358-375: parse_scp_format
parse_scp_format(u) == scp_parts(SplitOnce(u, ":"))

\* lines 330-339
parse_gerrit_ssh_params(u) ==
    IF Contains(u, <<":", "/", "/">>) THEN parse_ssh_url_format(u) ELSE parse_scp_format(u)

\* ---- lines 396-474: the two calls and the subprocess

IoError == "io error"
Utf8Error == "invalid utf-8 sequence"
RunContext == "running ssh gerrit query"
Utf8Context == "ssh output is not valid UTF-8"
QueryFailed(stderr) == AnyhowError("ssh gerrit query failed: {}", <<stderr>>)
ChangeNotFound == AnyhowError("change not found in SSH query output", <<>>)

\* what the subprocess does: Command::output fails ("io_error") or the
\* process exits, with a status, its stderr, and its stdout: the lines of a
\* UTF-8 text, or bytes that are no UTF-8
ProcOutcome(run, success, stderr, stdout) ==
    [run |-> run, success |-> success, stderr |-> stderr, stdout |-> stdout]

\* lines 435-474: run_gerrit_query_ssh; `spawns` counts the calls of
\* Command::output, of which the function has one
run_gerrit_query_ssh(proc) ==
    [spawns |-> 1,
     out |-> IF proc.run = "io_error" THEN WithContext(IoError, RunContext)
             ELSE IF ~proc.success THEN Err(QueryFailed(trim(proc.stderr)))
             ELSE IF ~proc.stdout.ok THEN WithContext(Utf8Error, Utf8Context)
             ELSE Ok(proc.stdout.val)]

\* `let output = run_gerrit_query_ssh(..).await?; parse_ssh_query_output(&output)`
parsed(output) ==
    IF output.out.ok
    THEN [spawns |-> output.spawns, out |-> parse_ssh_query_output(output.out.val)]
    ELSE output

\* `let (..) = parse_gerrit_ssh_params(remote_url)?;` and what follows it
with_params(params, done) == IF params.ok THEN done ELSE [spawns |-> 0, out |-> params]

\* lines 396-413: query_changes_over_ssh
query_changes_over_ssh(remote, proc) ==
    with_params(parse_gerrit_ssh_params(remote), parsed(run_gerrit_query_ssh(proc)))

\* lines 429-432: `changes.into_iter().next().context(..)`
first_change(done) ==
    IF ~done.out.ok THEN done
    ELSE IF done.out.val = <<>> THEN [spawns |-> done.spawns, out |-> Err(ChangeNotFound)]
    ELSE [spawns |-> done.spawns, out |-> Ok(done.out.val[1])]

\* lines 416-433: get_change_all_revisions_ssh
get_change_all_revisions_ssh(remote, proc) ==
    with_params(parse_gerrit_ssh_params(remote),
                first_change(parsed(run_gerrit_query_ssh(proc))))

\* ---- the inputs

\* remotes: ssh://h/p, u@h:p, ssh://h:x/p (a port that is no number), and h
SshUrl == <<"s", "s", "h", ":", "/", "/", "h", "/", "p">>
SshRemotes ==
    {SshUrl,
     <<"u", "@", "h", ":", "p">>,
     <<"s", "s", "h", ":", "/", "/", "h", ":", "x", "/", "p">>,
     <<"h">>}

\* what a failing process writes to stderr
Stderrs == {<<>>, <<"e">>, <<" ", "e", " ", "f", "\n">>, <<"\n">>}

\* a patch set as Gerrit reports it: number 1, ref "ra", revision "h1"
FirstPatchSet == JPatchSet(JNumber(1), JString("ra"), JString("h1"))

\* the lines of an output: a banner, a cut-off object, the stats row, two
\* changes, and changes with a field of a type the field does not have
ChangeLine(subject, updated, currentPatchSet) ==
    ObjectLine(JAbsent, subject, JString("NEW"), updated, currentPatchSet, JAbsent)
StatsLine == ObjectLine(JString("stats"), JAbsent, JAbsent, JAbsent, JAbsent, JAbsent)
FilterLines ==
    {TextLine, BrokenLine, StatsLine,
     ChangeLine(JString("s"), JNumber(12), FirstPatchSet),
     ChangeLine(JString("t"), JString(<<"9">>), JAbsent),
     ChangeLine(JString("u"), JBool(TRUE), FirstPatchSet),
     ChangeLine(JString("v"), JAbsent, JPatchSet(JBool(TRUE), JString("ra"), JString("h1"))),
     ChangeLine(JString("w"), JAbsent, JPatchSet(JString(<<"x">>), JString("ra"), JString("h1"))),
     ChangeLine(JNumber(5), JAbsent, JAbsent)}

\* the number of lines of such an output
MaxLines == 3

\* the runs of the subprocess that do not end in a change with patch sets
FilterProcs ==
    {ProcOutcome("io_error", FALSE, <<>>, Ok(<<>>))}
    \cup {ProcOutcome("exited", FALSE, e, Ok(<<>>)) : e \in Stderrs}
    \cup {ProcOutcome("exited", TRUE, <<>>, Err(Utf8Error))}
    \cup {ProcOutcome("exited", TRUE, <<>>, Ok(lines)) : lines \in SeqUpTo(FilterLines, MaxLines)}

\* the fields of the patch sets of a change: numbers as JSON numbers and as
\* strings, refs and revisions present or not
PatchSetNumbers == {JNull, JNumber(1), JNumber(2), JString(<<"1">>), JString(<<"2">>)}
PatchSetRefs == {JAbsent, JString("ra"), JString("rb")}
PatchSetRevisions == {JAbsent, JString("h1"), JString("h2")}
PatchSetObjects ==
    {JPatchSet(n, r, h) : n \in PatchSetNumbers, r \in PatchSetRefs, h \in PatchSetRevisions}
MaxPatchSets == 2

\* a run that prints one change with the given patch sets
ConversionProc(currentPatchSet, patchSets) ==
    ProcOutcome("exited", TRUE, <<>>,
                Ok(<<ObjectLine(JAbsent, JString("s"), JString("NEW"), JAbsent,
                                currentPatchSet, patchSets)>>))

SshIdle == ssh_call = None

SshCall(op, remote, proc, done) ==
    Some([op |-> op, remote |-> remote, proc |-> proc,
          spawns |-> done.spawns, out |-> done.out])

\* one call of query_changes_over_ssh
QueryChangesOverSsh(remote, proc) ==
    /\ ssh_call = None
    /\ ssh_call' = SshCall("query_changes", remote, proc,
                           query_changes_over_ssh(remote, proc))
    /\ UNCHANGED nonSshVars

\* one call of get_change_all_revisions_ssh
GetChangeAllRevisionsSsh(remote, proc) ==
    /\ ssh_call = None
    /\ ssh_call' = SshCall("get_change_all_revisions", remote, proc,
                           get_change_all_revisions_ssh(remote, proc))
    /\ UNCHANGED nonSshVars

\* the caller takes the result
SshReturn ==
    /\ ssh_call # None
    /\ ssh_call' = None
    /\ UNCHANGED nonSshVars

NextSsh ==
    \/ /\ ssh_call = None
       /\ \E remote \in SshRemotes, proc \in FilterProcs :
            GetChangeAllRevisionsSsh(remote, proc)
    \/ /\ ssh_call = None
       /\ \E cps \in {JAbsent} \cup PatchSetObjects,
             items \in SeqUpTo(PatchSetObjects, MaxPatchSets) :
            GetChangeAllRevisionsSsh(SshUrl, ConversionProc(cps, JArray(items)))
    \/ /\ ssh_call = None
       /\ \E remote \in SshRemotes, proc \in FilterProcs :
            QueryChangesOverSsh(remote, proc)
    \/ /\ ssh_call = None
       /\ \E cps \in {JAbsent} \cup PatchSetObjects :
            QueryChangesOverSsh(SshUrl, ConversionProc(cps, JAbsent))
    \/ SshReturn

---------------------------------------------------------------------------
(* comments.rs: collect_thread, frame by frame *)

\* lines 157-161: `replies` sorted by the update timestamp
sorted_replies(replies) ==
    StableSort(replies,
               {jk \in (DOMAIN replies) \X (DOMAIN replies) :
                   StrLess(reply_key(replies[jk[1]]), reply_key(replies[jk[2]]))})

\* lines 156-157: `if let Some(ref id) = comment.id`, `children.get(id)`
replies_of(comment, children) ==
    IF comment.id # None /\ comment.id.val \in DOMAIN children
    THEN sorted_replies(children[comment.id.val])
    ELSE <<>>

\* a frame of collect_thread: its comment, the replies it loops over, and
\* the position of the loop
Frame(comment, replies) == [comment |-> comment, replies |-> replies, next |-> 1]

\* lines 108-126: the thread of a root, once collect_thread has returned
thread_of(root, thread_comments) ==
    [file |-> root[1],
     line |-> root[2].line,
     resolved |-> resolved_of(thread_comments),
     comments |-> [k \in DOMAIN thread_comments |-> thread_comment(thread_comments[k])]]

\* lines 130-134: threads.sort_by
sorted_threads(threads) ==
    StableSort(threads,
               {jk \in (DOMAIN threads) \X (DOMAIN threads) :
                   thread_less(threads[jk[1]], threads[jk[2]])})

\* ---- the inputs: three comments of one file; ids may repeat, and a
\* comment may reply to any id, its own included

WalkIds == {"c1", "c2", "c3"}
WalkMessages == <<"m1", "m2", "m3">>

\* the frames the model follows the recursion for
MaxDepth == 4

WalkInput(ids, replies) ==
    [p \in DOMAIN WalkMessages |->
        <<<<"a">>,
          [id |-> Some(ids[p]), in_reply_to |-> replies[p], updated |-> None,
           line |-> None, unresolved |-> None, message |-> Some(WalkMessages[p]),
           author |-> None, patch_set |-> None]>>]

WalkIdle ==
    /\ walk_comments = <<>>
    /\ walk_pc = "idle"
    /\ walk_root = 0
    /\ walk_stack = <<>>
    /\ walk_result = <<>>
    /\ walk_threads = <<>>

\* build_threads is called: all_comments is built, no root is taken yet
WalkInit ==
    /\ \E ids \in [DOMAIN WalkMessages -> WalkIds],
          replies \in [DOMAIN WalkMessages -> {None} \cup {Some(id) : id \in WalkIds}] :
            walk_comments = WalkInput(ids, replies)
    /\ walk_pc = "roots"
    /\ walk_root = 0
    /\ walk_stack = <<>>
    /\ walk_result = <<>>
    /\ walk_threads = <<>>

\* collect_thread is entered for a comment: lines 145-155 push its tuple,
\* lines 156-161 find and sort its replies
Enter(stack, comment) ==
    /\ walk_stack' = Append(stack, Frame(comment, replies_of(comment, children_of(walk_comments))))
    /\ walk_result' = Append(IF stack = <<>> THEN <<>> ELSE walk_result, thread_tuple(comment))

\* lines 103-107: the loop over roots takes the next root, with a new
\* thread_comments, and calls collect_thread
CollectRoot ==
    /\ walk_pc = "roots"
    /\ walk_stack = <<>>
    /\ walk_root < Len(roots_of(walk_comments))
    /\ walk_root' = walk_root + 1
    /\ Enter(<<>>, roots_of(walk_comments)[walk_root + 1][2])
    /\ UNCHANGED <<walk_comments, walk_pc, walk_threads>>
    /\ UNCHANGED nonWalkVars

\* lines 162-164: the loop over the replies calls collect_thread for the
\* next reply
CollectReply ==
    /\ walk_stack # <<>>
    /\ Len(walk_stack) < MaxDepth
    /\ walk_stack[Len(walk_stack)].next <= Len(walk_stack[Len(walk_stack)].replies)
    /\ Enter([walk_stack EXCEPT ![Len(walk_stack)].next = @ + 1],
             walk_stack[Len(walk_stack)].replies[walk_stack[Len(walk_stack)].next])
    /\ UNCHANGED <<walk_comments, walk_pc, walk_root, walk_threads>>
    /\ UNCHANGED nonWalkVars

\* collect_thread returns; when it returns to build_threads, lines 108-126
\* push the thread
CollectReturn ==
    /\ walk_stack # <<>>
    /\ walk_stack[Len(walk_stack)].next > Len(walk_stack[Len(walk_stack)].replies)
    /\ walk_stack' = SubSeq(walk_stack, 1, Len(walk_stack) - 1)
    /\ walk_threads' =
         IF Len(walk_stack) = 1
         THEN Append(walk_threads, thread_of(roots_of(walk_comments)[walk_root], walk_result))
         ELSE walk_threads
    /\ UNCHANGED <<walk_comments, walk_pc, walk_root, walk_result>>
    /\ UNCHANGED nonWalkVars

\* lines 130-136: every root is done; the threads are sorted and returned
SortThreads ==
    /\ walk_pc = "roots"
    /\ walk_stack = <<>>
    /\ walk_root = Len(roots_of(walk_comments))
    /\ walk_threads' = sorted_threads(walk_threads)
    /\ walk_pc' = "done"
    /\ UNCHANGED <<walk_comments, walk_root, walk_stack, walk_result>>
    /\ UNCHANGED nonWalkVars

NextWalk ==
    \/ CollectRoot
    \/ CollectReply
    \/ CollectReturn
    \/ SortThreads

---------------------------------------------------------------------------
(* the specifications *)

ReviewIdle == RevisionIdle /\ CommandIdle /\ ThreadIdle
BackendIdle == SshIdle /\ WalkIdle

InitRest ==
    /\ RestInit /\ XssiIdle /\ GitIdle /\ AliasIdle /\ ResolveIdle /\ DispatchIdle /\ ReviewIdle
    /\ BackendIdle
InitXssi ==
    /\ RestIdle /\ XssiInit /\ GitIdle /\ AliasIdle /\ ResolveIdle /\ DispatchIdle /\ ReviewIdle
    /\ BackendIdle
InitAlias ==
    /\ RestIdle /\ XssiIdle /\ AliasInit /\ ResolveIdle /\ DispatchIdle /\ ReviewIdle
    /\ BackendIdle
InitResolve ==
    /\ RestIdle /\ XssiIdle /\ AliasIdle /\ ResolveInit /\ DispatchIdle /\ ReviewIdle
    /\ BackendIdle
InitDispatch ==
    /\ RestIdle /\ XssiIdle /\ GitIdle /\ AliasIdle /\ ResolveIdle /\ DispatchIdle /\ ReviewIdle
    /\ BackendIdle
InitRevision ==
    /\ RestIdle /\ XssiIdle /\ GitIdle /\ AliasIdle /\ ResolveIdle /\ DispatchIdle
    /\ RevisionIdle /\ CommandIdle /\ ThreadIdle /\ BackendIdle
InitCommand ==
    /\ RestIdle /\ XssiIdle /\ GitIdle /\ AliasIdle /\ ResolveIdle /\ DispatchIdle
    /\ RevisionIdle /\ CommandIdle /\ ThreadIdle /\ BackendIdle
InitThreads ==
    /\ RestIdle /\ XssiIdle /\ GitIdle /\ AliasIdle /\ ResolveIdle /\ DispatchIdle
    /\ RevisionIdle /\ CommandIdle /\ ThreadInit /\ BackendIdle

InitSsh ==
    /\ RestIdle /\ XssiIdle /\ GitIdle /\ AliasIdle /\ ResolveIdle /\ DispatchIdle
    /\ ReviewIdle /\ SshIdle /\ WalkIdle
InitWalk ==
    /\ RestIdle /\ XssiIdle /\ GitIdle /\ AliasIdle /\ ResolveIdle /\ DispatchIdle
    /\ ReviewIdle /\ SshIdle /\ WalkInit

SpecRest == InitRest /\ [][NextRest]_vars
SpecXssi == InitXssi /\ [][NextXssi]_vars
SpecAlias == InitAlias /\ [][NextAlias]_vars
SpecResolve == InitResolve /\ [][NextResolve]_vars
SpecDispatch == InitDispatch /\ [][NextDispatch]_vars
SpecRevision == InitRevision /\ [][NextRevision]_vars
SpecCommand == InitCommand /\ [][NextCommand]_vars
SpecThreads == InitThreads /\ [][NextThreads]_vars
SpecSsh == InitSsh /\ [][NextSsh]_vars
SpecWalk == InitWalk /\ [][NextWalk]_vars

---------------------------------------------------------------------------
(* the claims about GerritClient::get *)

IsStatus(raw, status) == raw.send_ok /\ raw.status = status

AllAttempts503 == Len(raws) >= 1 /\ \A i \in 1..Len(raws) : IsStatus(raws[i], 503)

\* C1: a GET whose every attempt fails with HTTP 503 makes exactly 4
\* attempts and sleeps 1s, 2s, 4s between them, one sleep after each of the
\* first three attempts; a GET whose first attempt fails with HTTP 404
\* makes exactly 1 attempt and never sleeps.
C1_RetrySchedule ==
    /\ AllAttempts503 =>
          /\ Len(attempts) <= 4
          /\ sleeps = SubSeq(<<1, 2, 4>>, 1, IF Len(attempts) <= 3 THEN Len(attempts) ELSE 3)
          /\ pc = "done" => Len(attempts) = 4 /\ sleeps = <<1, 2, 4>> /\ ~result.val.ok
    /\ (Len(raws) >= 1 /\ IsStatus(raws[1], 404)) =>
          pc = "done" /\ Len(attempts) = 1 /\ sleeps = <<>> /\ ~result.val.ok

C1_Witness == pc = "done" /\ AllAttempts503 /\ Len(attempts) = 4 /\ sleeps = <<1, 2, 4>>

AllAttemptsRetryable ==
    \A i \in 1..Len(attempts) : ~attempts[i].ok /\ is_retryable(attempts[i].err)

\* C2: when all 4 attempts fail with a retryable error, the error returned
\* carries the exhausted-retries context, which differs from the context of
\* a non-retryable failure.
C2_ExhaustedContext ==
    (pc = "done" /\ Len(attempts) = MAX_RETRIES + 1 /\ AllAttemptsRetryable) =>
        /\ ~result.val.ok
        /\ result.val.context = ExhaustedContext
        /\ ExhaustedContext # RequestContext

NonRetryable(r) ==
    /\ ~r.ok
    /\ \/ r.err.kind \in {"AuthFailed", "NotFound"}
       \/ r.err.kind = "ServerError" /\ r.err.status < 500

\* C3: a non-retryable error (AuthFailed, NotFound, ServerError below 500)
\* on any attempt ends the call at that attempt: it is the last attempt, no
\* sleep follows it, and it is the error returned.
C3_NonRetryableEnds ==
    \A i \in 1..Len(attempts) :
        NonRetryable(attempts[i]) =>
            /\ i = Len(attempts)
            /\ pc = "done"
            /\ Len(sleeps) = i - 1
            /\ ~result.val.ok
            /\ result.val.err = attempts[i].err

C3_Witness ==
    /\ pc = "done"
    /\ Len(attempts) = 3
    /\ NonRetryable(attempts[3])
    /\ attempts[3].err = NotFound
    /\ Len(sleeps) = 2

\* what the claim calls retryable, read off the transport and the status
RawRetryable(raw) ==
    \/ ~raw.send_ok
    \/ raw.status >= 500
    \/ is_success(raw.status) /\ ~raw.text_ok

\* C4: every failed attempt is classified as exactly one kind: 401/403 as
\* AuthFailed, 404 as NotFound, any other non-2xx status as
\* ServerError(status, body), a transport failure as Network; and it is
\* retryable (a sleep follows it while retries are left) exactly when it is
\* a ServerError with status >= 500 or a Network error.
C4_Classification ==
    \A i \in 1..Len(raws) :
        LET raw == raws[i]
            r == attempts[i]
        IN  /\ r.ok <=> (raw.send_ok /\ is_success(raw.status) /\ raw.text_ok)
            /\ ~r.ok =>
                /\ r.err.kind \in {"AuthFailed", "NotFound", "ServerError", "Network"}
                /\ r.err.kind = "AuthFailed" <=> (raw.send_ok /\ raw.status \in {401, 403})
                /\ r.err.kind = "AuthFailed" => r.err.status = raw.status
                /\ r.err.kind = "NotFound" <=> (raw.send_ok /\ raw.status = 404)
                /\ r.err.kind = "ServerError" <=>
                      (raw.send_ok /\ ~is_success(raw.status) /\ raw.status \notin {401, 403, 404})
                /\ r.err.kind = "ServerError" =>
                      r.err.status = raw.status /\ r.err.body = (IF raw.text_ok THEN raw.body ELSE <<>>)
                /\ r.err.kind = "Network" <=>
                      (~raw.send_ok \/ (is_success(raw.status) /\ ~raw.text_ok))
                /\ is_retryable(r.err) <=>
                      (r.err.kind = "Network" \/ (r.err.kind = "ServerError" /\ r.err.status >= 500))
                /\ is_retryable(r.err) <=> RawRetryable(raw)
                /\ i <= MAX_RETRIES => (Len(sleeps) >= i <=> RawRetryable(raw))

C4_Witness ==
    /\ Len(raws) = 3
    /\ IsStatus(raws[1], 500)
    /\ ~raws[2].send_ok
    /\ IsStatus(raws[3], 403)
    /\ attempts[3].err = AuthFailed(403)

---------------------------------------------------------------------------
(* the claim about strip_xssi_prefix *)

XssiMarker == <<")", "]", "}">>

\* the body is a first line that begins with the marker, a newline, a rest
IsXssiLineThen(body, line, rest) ==
    /\ body = line \o <<"\n">> \o rest
    /\ \A j \in 1..Len(line) : line[j] # "\n"
    /\ StartsWith(line, XssiMarker)

HasXssiLine(body) ==
    \E k \in 1..Len(body) : IsXssiLineThen(body, SubSeq(body, 1, k - 1), SliceFrom(body, k))

\* C5: for a body that starts with the XSSI marker line (a first line that
\* begins with the marker) followed by a newline, strip_xssi_prefix returns
\* the body with exactly that line and its newline removed; every other
\* body, the empty one included, is returned unchanged.
C5_StripXssi ==
    xssi_out.some =>
        IF HasXssiLine(xssi_body)
        THEN \E k \in 1..Len(xssi_body) :
                /\ IsXssiLineThen(xssi_body, SubSeq(xssi_body, 1, k - 1), SliceFrom(xssi_body, k))
                /\ xssi_out.val = SliceFrom(xssi_body, k)
        ELSE xssi_out.val = xssi_body

C5_Witness ==
    /\ xssi_out.some
    /\ xssi_body = <<")", "]", "}", "'", "\n", "1">>
    /\ xssi_out.val = <<"1">>

---------------------------------------------------------------------------
(* the claim about api_url *)

\* the part of an endpoint path before its query string
PathPart(p) == IF \E i \in 1..Len(p) : p[i] = "?" THEN SplitOnce(p, "?").val[1] ELSE p

\* C6: the path of every request URL is <base path>/a<endpoint> if and only
\* if the client holds credentials at the call, and <base path><endpoint>
\* otherwise: the base URL's sub-path is kept, and it is followed by "/a/"
\* exactly when credentials are held, whatever the caller passes.
C6_AuthPrefix ==
    url.some =>
        LET base == TrimEndMatches(base_path, "/")
            p == url.val.path
        IN  /\ StartsWith(p, base)
            /\ StartsWith(p, base \o <<"/", "a", "/">>) <=> credentials.some
            /\ credentials.some => p = base \o <<"/", "a">> \o PathPart(path)
            /\ ~credentials.some => p = base \o PathPart(path)

C6_Witness ==
    /\ url.some
    /\ credentials.some
    /\ base_path = <<"/", "g", "/">>
    /\ path = get_change_all_revisions_path(<<"/", "a", "/">>)
    /\ StartsWith(url.val.path, <<"/", "g", "/", "a", "/", "c", "h", "a", "n", "g", "e", "s", "/">>)

---------------------------------------------------------------------------
(* the claims about alias_url *)

\* the rules whose old_prefix is a literal prefix of the URL
Matching(u, rules) == {i \in 1..Len(rules) : StartsWith(u, rules[i][1])}

\* among the matching rules, the first-seen one of the longest old_prefix
LongestFirst(u, rules) ==
    CHOOSE i \in Matching(u, rules) :
        \A j \in Matching(u, rules) :
            \/ Len(rules[j][1]) < Len(rules[i][1])
            \/ Len(rules[j][1]) = Len(rules[i][1]) /\ i <= j

\* new_prefix followed by the URL with old_prefix removed
Applied(u, rule) == rule[2] \o SliceFrom(u, Len(rule[1]))

\* C7: for any rule set and URL, alias_url applies, among the rules whose
\* old_prefix is a prefix of the URL, the first-seen one of the longest
\* old_prefix, never a shorter one, and returns new_prefix followed by the
\* URL with old_prefix removed.
C7_LongestMatch ==
    (alias_call # None /\ ~alias_call.val.for_push) =>
        LET u == alias_call.val.url
            rules == rewrites.val.instead_of
        IN  Matching(u, rules) # {} =>
                alias_call.val.out = Applied(u, rules[LongestFirst(u, rules)])

\* C8: for a push, if any pushInsteadOf rule matches, a pushInsteadOf rule
\* is what is applied and no insteadOf rule; for a fetch no pushInsteadOf
\* rule is ever applied; when no rule matches the URL is returned
\* unchanged.
C8_PushPrecedence ==
    alias_call # None =>
        LET u == alias_call.val.url
            out == alias_call.val.out
            instead == rewrites.val.instead_of
            push == rewrites.val.push_instead_of
        IN  /\ (alias_call.val.for_push /\ Matching(u, push) # {}) =>
                  out \in {Applied(u, push[i]) : i \in Matching(u, push)}
            /\ ~alias_call.val.for_push =>
                  /\ out \in {u} \cup {Applied(u, instead[i]) : i \in Matching(u, instead)}
                  /\ out = alias_url(u, [rewrites.val EXCEPT !.push_instead_of = <<>>], FALSE)
            /\ (Matching(u, instead) = {} /\ (alias_call.val.for_push => Matching(u, push) = {})) =>
                  out = u

---------------------------------------------------------------------------
(* the claims about resolve_remote_url *)

\* the rules in effect: those of the configuration, none when it cannot be read
RulesRead == IF config_list.ok THEN populate_rewrites(config_list.val) ELSE DefaultRewrites

\* a URL rewritten with insteadOf rules only
WithInsteadOf(u) ==
    LET m == longest_match_replace(u, RulesRead.instead_of)
    IN  IF m.some THEN m.val ELSE u

\* a URL rewritten with pushInsteadOf rules, else with insteadOf rules
WithPushThenInsteadOf(u) ==
    LET m == longest_match_replace(u, RulesRead.push_instead_of)
    IN  IF m.some THEN m.val ELSE WithInsteadOf(u)

\* the URL the resolution order selects: Option<String>
SelectedUrl(fallback_url) ==
    IF remote_pushurl.some THEN Some(WithInsteadOf(remote_pushurl.val))
    ELSE IF remote_url.some THEN Some(WithPushThenInsteadOf(remote_url.val))
    ELSE fallback_url

\* C9 as stated: the push URL rewritten with insteadOf only, else the fetch
\* URL rewritten with pushInsteadOf-then-insteadOf, else the fallback, is
\* what is returned; nothing is returned, as a non-error, if none exists.
C9_ResolutionOrder ==
    (resolve_call # None /\ resolve_call.val.pushurl_ok /\ resolve_call.val.url_ok) =>
        resolve_call.val.out = Ok(SelectedUrl(resolve_call.val.fallback_url))

\* C9, amended: when both configuration reads succeed, the URL selected in
\* that order is returned, except that an empty URL is returned as nothing;
\* nothing is a non-error result; a failed read makes the call fail.
C9_ResolutionOrderNonEmpty ==
    resolve_call # None =>
        LET call == resolve_call.val
            selected == SelectedUrl(call.fallback_url)
        IN  IF call.pushurl_ok /\ call.url_ok
            THEN call.out = Ok(IF selected.some /\ selected.val # <<>> THEN selected ELSE None)
            ELSE ~call.out.ok

C9_Witness ==
    /\ resolve_call # None
    /\ resolve_call.val.pushurl_ok /\ resolve_call.val.url_ok
    /\ remote_pushurl = Some(<<"a", "b">>)
    /\ remote_url = Some(<<"a", "b">>)
    /\ config_list = Ok(<<[kind |-> "pushinsteadof", base |-> <<"x">>, value |-> <<"a", "b">>],
                          [kind |-> "insteadof", base |-> <<"x">>, value |-> <<"a">>]>>)
    /\ resolve_call.val.out = Ok(Some(<<"x", "b">>))

---------------------------------------------------------------------------
(* the claim about the query dispatcher *)

SchemeSeparator == <<":", "/", "/">>

\* the scheme of a URL: what stands before its first "://", if it has one
Scheme(u) ==
    LET at == {i \in 1..Len(u) : StartsWith(SliceFrom(u, i - 1), SchemeSeparator)}
    IN  IF at = {} THEN None
        ELSE Some(SubSeq(u, 1, (CHOOSE i \in at : \A j \in at : i <= j) - 1))

HasHttpScheme(u) ==
    Scheme(u) \in {Some(<<"h", "t", "t", "p">>), Some(<<"h", "t", "t", "p", "s">>)}

\* C10: query_changes and get_change_all_revisions invoke exactly one
\* backend per call: the REST client if and only if the URL's scheme is
\* literally http or https, the SSH backend for every other URL form.
C10_Routing ==
    dispatch_call # None =>
        /\ dispatch_call.op \in {"query_changes", "get_change_all_revisions"}
        /\ Len(dispatch_call.invoked) = 1
        /\ dispatch_call.invoked[1] = "rest" <=> HasHttpScheme(dispatch_call.remote_url)
        /\ dispatch_call.invoked[1] = "ssh" <=> ~HasHttpScheme(dispatch_call.remote_url)
        /\ dispatch_call.out # None => dispatch_call.out.val.from = dispatch_call.invoked[1]

C10_Witness ==
    /\ dispatch_call # None
    /\ dispatch_call.op = "get_change_all_revisions"
    /\ dispatch_call.remote_url = <<"g", "@", "h", ":", "h", "/", "p">>
    /\ dispatch_call.invoked = <<"ssh">>
    /\ dispatch_call.out # None

---------------------------------------------------------------------------
(* the claims about the review commands and find_target_revision *)

\* the operations that query or fetch changes
ChangeOperations == {"query_changes", "get_change_all_revisions"}

\* C11: every change query and change fetch a command (list, download,
\* cherry-pick, compare) makes goes through the query dispatcher of
\* review_query.rs; no command calls the REST client or the SSH backend
\* directly for these operations.
C11_ThroughDispatcher ==
    command_call # None =>
        \A i \in DOMAIN command_call.calls :
            command_call.calls[i].op \in ChangeOperations =>
                command_call.calls[i].target = "review_query"

\* the revisions of the change of the call, and what the call returned
CallRevisions == revision_call.val.change.revisions.val
CallOut == revision_call.val.out

\* C12: with patchset = Some(n) on a change that has a revision map,
\* find_target_revision returns a pair (revision_id, revision) where
\* revision_id is a key of the map, the map sends it to that revision and
\* the revision's number is n; if no revision of the map has number n it
\* fails with the patchset-not-found error that names n.
C12_PatchsetFound ==
    ( /\ revision_call # None
      /\ revision_call.val.patchset # None
      /\ revision_call.val.change.revisions # None ) =>
        LET n == revision_call.val.patchset.val
        IN  IF \E sha \in DOMAIN CallRevisions : CallRevisions[sha].number = Some(n)
            THEN /\ CallOut.ok
                 /\ CallOut.val[1] \in DOMAIN CallRevisions
                 /\ CallRevisions[CallOut.val[1]] = CallOut.val[2]
                 /\ CallOut.val[2].number = Some(n)
            ELSE /\ ~CallOut.ok
                 /\ CallOut.err.msg = "patchset {} not found in change"
                 /\ CallOut.err.args = <<n>>

C12_Witness ==
    /\ revision_call # None
    /\ revision_call.val.patchset = Some(2)
    /\ revision_call.val.change.revisions # None
    /\ DOMAIN CallRevisions = Shas
    /\ CallRevisions["s1"].number = Some(1)
    /\ CallOut.ok
    /\ CallOut.val[1] = "s2"

\* C13: with patchset = None, find_target_revision succeeds exactly when
\* current_revision is present and is a key of the revision map, and then
\* returns that key with its revision; otherwise it fails, it never
\* returns another revision.
C13_CurrentRevision ==
    (revision_call # None /\ revision_call.val.patchset = None) =>
        LET change == revision_call.val.change
            keyed == /\ change.revisions # None
                     /\ change.current_revision # None
                     /\ change.current_revision.val \in DOMAIN change.revisions.val
        IN  /\ CallOut.ok <=> keyed
            /\ CallOut.ok =>
                 CallOut.val = <<change.current_revision.val,
                                 change.revisions.val[change.current_revision.val]>>

C13_Witness ==
    /\ revision_call # None
    /\ revision_call.val.patchset = None
    /\ revision_call.val.change.current_revision = Some(UnknownSha)
    /\ revision_call.val.change.revisions # None
    /\ DOMAIN CallRevisions = Shas
    /\ ~CallOut.ok

\* C14: find_target_revision fails whenever the change has no revision
\* data, whatever the patchset argument is, and the error is not the
\* patchset-not-found error.
C14_NoRevisionData ==
    (revision_call # None /\ revision_call.val.change.revisions = None) =>
        /\ ~CallOut.ok
        /\ CallOut.err.msg # "patchset {} not found in change"

C14_Witness ==
    /\ revision_call # None
    /\ revision_call.val.change.revisions = None
    /\ revision_call.val.patchset = Some(99)
    /\ ~CallOut.ok

---------------------------------------------------------------------------
(* the claims about build_threads *)

\* the comments of the input, and the threads of the last call
InputComments ==
    UNION {{comments_by_file[f][k] : k \in DOMAIN comments_by_file[f]} :
                f \in DOMAIN comments_by_file}
Threads == threads_call.val

\* the input comment a ThreadComment was made from (messages are distinct)
Source(tc) == CHOOSE c \in InputComments : c.message = Some(tc.message)

\* the comment's reply-to id is the id of an input comment
Resolves(c) == c.in_reply_to # None /\ \E d \in InputComments : d.id = c.in_reply_to
ParentOf(c) == CHOOSE d \in InputComments : d.id = c.in_reply_to

\* a comment with the comments that reply to it, directly or not
RECURSIVE WithReplies(_)
WithReplies(S) ==
    LET more == S \cup {c \in InputComments : Resolves(c) /\ ParentOf(c) \in S}
    IN  IF more = S THEN S ELSE WithReplies(more)
Subtree(c) == WithReplies({c})

\* the input comments of a thread, in the thread's order
Flattened(t) == [k \in DOMAIN t.comments |-> Source(t.comments[k])]

\* C15: a comment is the root of a thread if and only if it has no
\* reply-to id or its reply-to id matches no comment id of the input; so a
\* comment with a dangling reply-to id heads a thread of its own, and
\* there are as many threads as roots.
C15_Roots ==
    threads_call # None =>
        /\ \A c \in InputComments :
             ~Resolves(c) <=> \E i \in DOMAIN Threads : Flattened(Threads[i])[1] = c
        /\ Len(Threads) = Cardinality({c \in InputComments : ~Resolves(c)})

C15_Witness ==
    /\ threads_call # None
    /\ \E c, d \in InputComments :
         /\ c.in_reply_to = Some(DanglingId)
         /\ d.in_reply_to = c.id
         /\ \E i \in DOMAIN Threads : Flattened(Threads[i]) = <<c, d>>

\* the update timestamp as the sort compares it
UpdatedOrEmpty(c) == IF c.updated = None THEN <<>> ELSE c.updated.val

\* where the comment stands when the map yields its files in this order
SeenAt(c, order) ==
    LET all == all_comments_of(comments_by_file, order)
    IN  CHOOSE k \in DOMAIN all : all[k][2] = c

\* the list is the depth-first pre-order of the reply tree under the root:
\* it holds the root's subtree, each comment once; every comment is
\* followed at once by the whole of its own subtree; and replies to one
\* parent stand in ascending timestamp order, first-seen first on a tie
PreOrder(list, order) ==
    LET subtree == [j \in DOMAIN list |-> Subtree(list[j])]
    IN  /\ \A j, k \in DOMAIN list : list[j] = list[k] => j = k
        /\ {list[k] : k \in DOMAIN list} = subtree[1]
        /\ \A j \in DOMAIN list :
             LET size == Cardinality(subtree[j])
             IN  /\ j + size - 1 <= Len(list)
                 /\ {list[k] : k \in j..(j + size - 1)} = subtree[j]
        /\ \A j, k \in DOMAIN list :
             ( /\ j < k
               /\ list[j].in_reply_to = list[k].in_reply_to
               /\ Resolves(list[j]) ) =>
                 /\ ~StrLess(UpdatedOrEmpty(list[k]), UpdatedOrEmpty(list[j]))
                 /\ UpdatedOrEmpty(list[k]) = UpdatedOrEmpty(list[j]) =>
                      SeenAt(list[j], order) < SeenAt(list[k], order)

\* a linear reply chain: every comment but the first replies to the one
\* before it
IsChain(list) ==
    /\ ~Resolves(list[1])
    /\ \A k \in 2..Len(list) : Resolves(list[k]) /\ ParentOf(list[k]) = list[k - 1]

\* the input is one linear reply chain: one comment starts it, every
\* comment has at most one reply, and all of them hang under the first
IsChainInput ==
    /\ Cardinality({c \in InputComments : ~Resolves(c)}) = 1
    /\ \A c, d \in InputComments :
         (Resolves(c) /\ Resolves(d) /\ ParentOf(c) = ParentOf(d)) => c = d
    /\ \A c \in InputComments : ~Resolves(c) => Subtree(c) = InputComments

\* C16: each thread's comment list is the depth-first pre-order
\* flattening of its reply tree (root first, children in ascending
\* update-timestamp order by string comparison, ties in first-seen order,
\* a child's whole subtree before the next sibling); a linear reply chain
\* c1 <- c2 <- ... <- cn gives the one thread [c1, ..., cn].
C16_PreOrder ==
    threads_call # None =>
        /\ LET lists == [i \in DOMAIN Threads |-> Flattened(Threads[i])]
           IN  \E order \in IterationOrders(comments_by_file) :
                 \A i \in DOMAIN Threads : PreOrder(lists[i], order)
        /\ IsChainInput =>
                /\ Len(Threads) = 1
                /\ IsChain(Flattened(Threads[1]))
                /\ {Flattened(Threads[1])[k] : k \in DOMAIN Threads[1].comments} = InputComments

C16_Witness ==
    /\ threads_call # None
    /\ Len(Threads) = 1
    /\ Len(Threads[1].comments) = 4
    /\ \E list \in {Flattened(Threads[1])} :
         /\ ParentOf(list[2]) = list[1]
         /\ ParentOf(list[3]) = list[2]
         /\ ParentOf(list[4]) = list[1]
         /\ StrLess(UpdatedOrEmpty(list[4]), UpdatedOrEmpty(list[3]))

\* C17: a thread is resolved if and only if the last comment of its
\* flattened list has unresolved explicitly false; with unresolved true or
\* absent there the thread is unresolved, whatever the earlier comments say.
C17_ResolvedByLast ==
    threads_call # None =>
        \A i \in DOMAIN Threads :
            LET list == Flattened(Threads[i])
            IN  Threads[i].resolved <=> list[Len(list)].unresolved = Some(FALSE)

C17_Witness ==
    /\ threads_call # None
    /\ \E i \in DOMAIN Threads :
         LET list == Flattened(Threads[i])
         IN  /\ Len(list) = 3
             /\ list[1].unresolved = Some(FALSE)
             /\ list[2].unresolved = Some(FALSE)
             /\ list[3].unresolved = None
             /\ ~Threads[i].resolved

\* the comments of a list with the greatest update timestamp
Latest(list) ==
    {c \in {list[k] : k \in DOMAIN list} :
        \A k \in DOMAIN list : ~StrLess(UpdatedOrEmpty(c), UpdatedOrEmpty(list[k]))}

\* C18: for every thread, branching reply trees included, resolved is true
\* if and only if the thread's chronologically-last comment (the one with
\* the greatest update timestamp in the thread) has unresolved == false.
C18_ResolvedByLatest ==
    threads_call # None =>
        \A i \in DOMAIN Threads :
            LET latest == Latest(Flattened(Threads[i]))
            IN  Cardinality(latest) = 1 =>
                    (Threads[i].resolved <=> \A c \in latest : c.unresolved = Some(FALSE))

\* the line a thread is ordered by
LineOrZero(t) == IF t.line = None THEN 0 ELSE t.line.val

\* C19: the threads are ordered by file path (lexicographic) and, within a
\* file, by ascending line number, a file-level thread counting as line 0
\* and so standing before every thread with a positive line.
C19_Sorted ==
    threads_call # None =>
        \A i, j \in DOMAIN Threads :
            i < j =>
                \/ StrLess(Threads[i].file, Threads[j].file)
                \/ /\ Threads[i].file = Threads[j].file
                   /\ LineOrZero(Threads[i]) <= LineOrZero(Threads[j])

C19_Witness ==
    /\ threads_call # None
    /\ DOMAIN comments_by_file = {<<"a">>}
    /\ comments_by_file[<<"a">>][1].line = Some(2)
    /\ comments_by_file[<<"a">>][2].line = Some(1)
    /\ comments_by_file[<<"a">>][3].line = None
    /\ Len(Threads) = 3
    /\ Threads[1].line = None /\ Threads[2].line = Some(1) /\ Threads[3].line = Some(2)

\* C20: build_threads is deterministic: whatever order the input map
\* yields its files in, it returns the same threads in the same order with
\* the same comment order inside each thread.
C20_Deterministic ==
    threads_call # None =>
        \A order \in IterationOrders(comments_by_file) :
            build_threads(comments_by_file, order) = Threads

---------------------------------------------------------------------------
(* the claims about the SSH query backend *)

SshOut == ssh_call.val.out
SshLines == ssh_call.val.proc.stdout.val

\* the subprocess ran and printed UTF-8 text, which the call went on to parse
SshParsed ==
    /\ ssh_call # None
    /\ parse_gerrit_ssh_params(ssh_call.val.remote).ok
    /\ ssh_call.val.proc.run = "exited"
    /\ ssh_call.val.proc.success
    /\ ssh_call.val.proc.stdout.ok

\* the lines that are JSON objects without a `type` key
IsChangeLine(line) == line.kind = "object" /\ line.type = JAbsent
Remaining == SelectSeq(SshLines, IsChangeLine)

\* the change lines of the inputs that SshChangeRaw cannot be read from: a
\* subject that is a number, a patch set number that is no numeral
Undecodable(line) ==
    \/ line.subject.t = "number"
    \/ /\ line.currentPatchSet.t = "object"
       /\ line.currentPatchSet.number.t = "string"
       /\ \E i \in DOMAIN line.currentPatchSet.number.s :
            ~IsDigit(line.currentPatchSet.number.s[i])

deserialize_option_i32(j) ==
    IF j.t \in {"absent", "null"} THEN Ok(None)
    ELSE IF j.t = "number" THEN some_of(in_i32(j.n))
    ELSE Err(InvalidType)

RevisionInfo(number, git_ref) ==
    IF ~number.ok THEN number
    ELSE IF ~git_ref.ok THEN git_ref
    ELSE Ok([number |-> number.val, git_ref |-> git_ref.val])

deserialize_RevisionInfo(j) ==
    RevisionInfo(deserialize_option_i32(j.number_), deserialize_option_string(j.ref))

\* Option<HashMap<String, RevisionInfo>>
map_of(each) ==
    IF \E k \in DOMAIN each : ~each[k].ok
    THEN Err(InvalidType)
    ELSE Ok(Some([k \in DOMAIN each |-> each[k].val]))

deserialize_revisions(j) ==
    IF j.t \in {"absent", "null"} THEN Ok(None)
    ELSE IF j.t = "map"
    THEN map_of([k \in DOMAIN j.entries |-> deserialize_RevisionInfo(j.entries[k])])
    ELSE Err(InvalidType)

RestChangeInfo(subject, status, current_revision, revisions) ==
    IF ~subject.ok THEN subject
    ELSE IF ~status.ok THEN status
    ELSE IF ~current_revision.ok THEN current_revision
    ELSE IF ~revisions.ok THEN revisions
    ELSE Ok([subject |-> subject.val, status |-> status.val,
             current_revision |-> current_revision.val, revisions |-> revisions.val])

\* ChangeInfo, derived Deserialize
deserialize_ChangeInfo(j) ==
    RestChangeInfo(deserialize_option_string(j.subject),
                   deserialize_option_string(j.status),
                   deserialize_option_string(j.current_revision),
                   deserialize_revisions(j.revisions))

\* ---- a change line as a report of source data

\* the patch set numbers Gerrit gives
SourceNumbers == 1..2

\* a patch set with its number (a JSON number or its decimal numeral), its
\* ref and its revision hash
IsReport(ps) ==
    /\ ps.t = "object"
    /\ \/ ps.number.t = "number" /\ ps.number.n \in SourceNumbers
       \/ ps.number.t = "string" /\ \E n \in SourceNumbers : to_string(n) = ps.number.s
    /\ ps.ref.t = "string"
    /\ ps.revision.t = "string"

\* the number such a patch set reports
ReportedNumber(ps) ==
    IF ps.number.t = "number" THEN ps.number.n
    ELSE CHOOSE n \in SourceNumbers : to_string(n) = ps.number.s

\* the patch sets a line lists: patchSets, or currentPatchSet alone
ListedPatchSets(line) ==
    IF line.patchSets.t = "array" THEN line.patchSets.items ELSE <<line.currentPatchSet>>

\* the line reports a change with its patch sets, each under its own number
\* and hash, one of them being the current one
IsSourceReport(line) ==
    /\ IsChangeLine(line)
    /\ line.subject.t = "string" /\ line.status.t = "string"
    /\ IsReport(line.currentPatchSet)
    /\ \A i \in DOMAIN ListedPatchSets(line) : IsReport(ListedPatchSets(line)[i])
    /\ \A i, k \in DOMAIN ListedPatchSets(line) :
         i # k => /\ ReportedNumber(ListedPatchSets(line)[i]) # ReportedNumber(ListedPatchSets(line)[k])
                  /\ ListedPatchSets(line)[i].revision # ListedPatchSets(line)[k].revision
    /\ \E i \in DOMAIN ListedPatchSets(line) :
         /\ ReportedNumber(ListedPatchSets(line)[i]) = ReportedNumber(line.currentPatchSet)
         /\ ListedPatchSets(line)[i].ref = line.currentPatchSet.ref
         /\ ListedPatchSets(line)[i].revision = line.currentPatchSet.revision

\* the REST API's JSON for the same source data
RestJson(line) ==
    [subject |-> line.subject, status |-> line.status,
     current_revision |-> line.currentPatchSet.revision,
     revisions |->
        [t |-> "map",
         entries |->
            [h \in {ListedPatchSets(line)[i].revision.s : i \in DOMAIN ListedPatchSets(line)} |->
                LET ps == ListedPatchSets(line)[
                              CHOOSE i \in DOMAIN ListedPatchSets(line) :
                                  ListedPatchSets(line)[i].revision.s = h]
                IN  [number_ |-> JNumber(ReportedNumber(ps)), ref |-> ps.ref]]]]

\* the change a call returned for the first line of the output
SshChange == IF ssh_call.val.op = "query_changes" THEN SshOut.val[1] ELSE SshOut.val

\* the fields of the shared model
Shared(change) ==
    [revisions |-> change.revisions, current_revision |-> change.current_revision,
     subject |-> change.subject, status |-> change.status]

ReturnedChanges ==
    IF ssh_call = None \/ ~SshOut.ok THEN {}
    ELSE IF ssh_call.val.op = "query_changes" THEN {SshOut.val[i] : i \in DOMAIN SshOut.val}
    ELSE {SshOut.val}

\* C23: every change the SSH backend returns keeps the invariant of the
\* data model: when its revisions map is present and not empty and its
\* current_revision is present, current_revision is a key of the map,
\* whatever currentPatchSet and patchSets the server reports.
C23_CurrentIsKey ==
    \A change \in ReturnedChanges :
        ( /\ change.revisions # None
          /\ change.revisions.val # <<>>
          /\ change.current_revision # None ) =>
            change.current_revision.val \in DOMAIN change.revisions.val

\* the change-data lines the output holds: object lines without `type`,
\* and lines that begin an object and break off
IsChangeData(line) == line.kind = "broken" \/ IsChangeLine(line)

\* a line or a field of it that cannot be read: a broken line, a timestamp
\* or a patch set number that is neither a number nor a string, a patch set
\* number that is no numeral, a subject that is no string
Unreadable(line) ==
    \/ line.kind = "broken"
    \/ /\ IsChangeLine(line)
       /\ \/ line.updated.t \notin {"absent", "null", "number", "string"}
          \/ /\ line.currentPatchSet.t = "object"
             /\ line.currentPatchSet.number.t \notin {"null", "number", "string"}
          \/ Undecodable(line)

\* C24: when a change-data line of the output, or one of its fields, cannot
\* be parsed, the call fails; the line is never skipped, the field never
\* replaced by an absent value.
C24_ParseFailureFails ==
    (SshParsed /\ \E i \in DOMAIN SshLines : Unreadable(SshLines[i])) => ~SshOut.ok

\* t is s without the whitespace at its two ends
IsTrimOf(t, s) ==
    \E a \in 0..Len(s) :
        \E b \in a..Len(s) :
            /\ t = SubSeq(s, a + 1, b)
            /\ \A k \in 1..a : IsWhitespace(s[k])
            /\ \A k \in (b + 1)..Len(s) : IsWhitespace(s[k])
            /\ t # <<>> => ~IsWhitespace(t[1]) /\ ~IsWhitespace(t[Len(t)])

\* C25: a call of the SSH backend runs the ssh subprocess at most once;
\* when the subprocess exits with a status other than zero the call fails
\* with an error that holds the trimmed stderr of the subprocess, after
\* that one run, and returns no change.
C25_OneSubprocess ==
    ssh_call # None =>
        /\ ssh_call.val.spawns <= 1
        /\ ( /\ parse_gerrit_ssh_params(ssh_call.val.remote).ok
             /\ ssh_call.val.proc.run = "exited"
             /\ ~ssh_call.val.proc.success ) =>
                /\ ssh_call.val.spawns = 1
                /\ ~SshOut.ok
                /\ SshOut.err.msg = "ssh gerrit query failed: {}"
                /\ Len(SshOut.err.args) = 1
                /\ IsTrimOf(SshOut.err.args[1], ssh_call.val.proc.stderr)

C25_Witness ==
    /\ ssh_call # None
    /\ ssh_call.val.remote = SshUrl
    /\ ssh_call.val.proc.run = "exited"
    /\ ~ssh_call.val.proc.success
    /\ ssh_call.val.proc.stderr = <<" ", "e", " ", "f", "\n">>
    /\ ssh_call.val.spawns = 1
    /\ ~SshOut.ok
    /\ SshOut.err.args = <<<<"e", " ", "f">>>>

\* the patch sets of a line that the conversion collects: those with a
\* revision, a ref and a number
IsListed(ps) ==
    /\ ps.revision.t = "string"
    /\ ps.ref.t = "string"
    /\ ps.number.t \in {"number", "string"}

\* the number of a patch set, if it has one
NumberOf(ps) ==
    IF ps.t = "object" /\ ps.number.t \in {"number", "string"}
    THEN Some(ReportedNumber(ps))
    ELSE None

\* the revision of the collected patch set of `items` with number n
CollectedWith(items, n) ==
    items[CHOOSE i \in DOMAIN items : IsListed(items[i]) /\ NumberOf(items[i]) = Some(n)].revision.s

\* the greatest number of the collected patch sets of `items`
HighestNumber(items) ==
    CHOOSE n \in SourceNumbers :
        /\ \E i \in DOMAIN items : IsListed(items[i]) /\ NumberOf(items[i]) = Some(n)
        /\ \A i \in DOMAIN items : IsListed(items[i]) => NumberOf(items[i]).val <= n

---------------------------------------------------------------------------
(* the claims about the traversal of collect_thread *)

WalkInputs == {walk_comments[p][2] : p \in DOMAIN walk_comments}

DistinctIds ==
    \A p, q \in DOMAIN walk_comments :
        walk_comments[p][2].id = walk_comments[q][2].id => p = q

\* the places of the returned threads that hold the comment
Places(comment) ==
    {tk \in (DOMAIN walk_threads) \X (1..Len(walk_comments)) :
        /\ tk[2] \in DOMAIN walk_threads[tk[1]].comments
        /\ walk_threads[tk[1]].comments[tk[2]].message = comment.message.val}

\* C27: when the ids of the input comments are pairwise distinct, every
\* input comment is in exactly one place of the threads build_threads
\* returns, also when a comment replies to itself or the reply links form a
\* cycle.
C27_Partition ==
    (walk_pc = "done" /\ DistinctIds) =>
        \A comment \in WalkInputs : Cardinality(Places(comment)) = 1

\* C28: the recursion of collect_thread is never nested deeper than the
\* number of input comments, also when comments share an id or the reply
\* links are cyclic.  (A deeper nest holds one comment twice, and the walk
\* from a comment to itself then repeats without end.)
C28_BoundedRecursion == Len(walk_stack) <= Len(walk_comments)

---------------------------------------------------------------------------
(* the claim about the cost of GerritClient::get *)

RECURSIVE total_delay(_)
total_delay(s) == IF s = <<>> THEN 0 ELSE Head(s) + total_delay(Tail(s))

\* a call of get that has not returned can take its next step: an attempt
\* ends with some outcome, a sleep ends
CanStep ==
    /\ pc = "attempt" => ENABLED (\E raw \in RawOutcomes : GetAttempt(raw))
    /\ pc = "sleep" => ENABLED GetWake

\* C29: whatever the outcomes of the attempts, a call of get makes at most
\* 4 attempts and at most 3 sleeps, 7 seconds in all, and is never stuck
\* before it returns; the sleep before attempt k+1 is 2^(k-1) seconds; an
\* attempt that succeeds is the last one, and the call returns its body.
C29_BoundedGet ==
    /\ Len(attempts) <= 4
    /\ Len(sleeps) <= 3
    /\ total_delay(sleeps) <= 7
    /\ Len(attempts) <= Len(sleeps) + 1
    /\ attempt <= Len(sleeps)
    /\ CanStep
    /\ \A k \in 1..Len(sleeps) : sleeps[k] = 2 ^ (k - 1)
    /\ \A i \in 1..Len(attempts) :
          attempts[i].ok =>
              /\ i = Len(attempts)
              /\ pc = "done"
              /\ result = Some(Ok(attempts[i].val))

C29_Witness ==
    /\ pc = "done"
    /\ Len(attempts) = 4
    /\ attempts[4].ok
    /\ sleeps = <<1, 2, 4>>
    /\ result = Some(Ok(<<"1">>))

---------------------------------------------------------------------------
(* the claim about the Authorization header *)

HasAuthorization(request) == \E h \in request.headers : h.name = "authorization"

IsAuthenticatedEndpoint(request) ==
    StartsWith(request.url.path, TrimEndMatches(base_path, "/") \o <<"/", "a", "/">>)

\* C30: a request the client sends carries an Authorization header if and
\* only if the client holds credentials, so every request to an /a/...
\* endpoint carries one, whatever the user name, the password and the
\* authentication type are.
C30_AuthorizationIffCredentials ==
    \A i \in DOMAIN requests :
        /\ HasAuthorization(requests[i]) <=> credentials.some
        /\ IsAuthenticatedEndpoint(requests[i]) => HasAuthorization(requests[i])

=============================================================================
